---- MODULE Spec2Model ----
(***************************************************************************)
(* A model of the bencode streaming parser BEReader (src/src/bereader.rs). *)
(* The byte source is a finite sequence of read results; the reader is the *)
(* Peekable<Bytes<R>> the parser holds; each step of the state machine is  *)
(* one public next_value call on that reader.                              *)
(* The typed adapter (src/src/ser.rs, src/src/serbe/de.rs) is modelled     *)
(* after it, with a state machine of its own: one to_bytes and one         *)
(* from_bytes call on a typed value or on given bytes.                     *)
(***************************************************************************)
EXTENDS Integers, Sequences, FiniteSets, TLC

VARIABLES
    origin,    \* how the byte source was built (ghost: the input's description)
    src,       \* the byte source: what the underlying Read yields, item by item
               \* (kept split around one run of a repeated byte, see SrcAt)
    chars,     \* BEReader.chars: the Peekable over the source's bytes
    results,   \* what the successive next_value calls returned
    aborted,   \* the process has panicked: no further call is possible
    job,       \* the typed adapter's input: a type with a value to encode or
               \* with bytes to decode, and the build's overflow checks
    encoded,   \* what to_bytes returned for the job's value, once called
    decoded    \* what from_bytes returned, once called

vars == <<origin, src, chars, results, aborted, job, encoded, decoded>>

-----------------------------------------------------------------------------
(* Bytes the parser names.                                                 *)

COLON_CHAR == 58
D_CHAR == 100
E_CHAR == 101
I_CHAR == 105
L_CHAR == 108
MINUS_SIGN == 45
ZERO_CHAR == 48
NINE_CHAR == 57

\* u8::is_ascii_digit
is_ascii_digit(ch) == ch >= ZERO_CHAR /\ ch <= NINE_CHAR

\* Capacity of read_raw_integer's digit buffer and of read_string's buffer.
INT_BUF_LEN == 100
STR_BUF_LEN == 100000

\* What the byte iterator yields besides a byte: None at the end of the
\* source, Some(Err(_)) when the underlying read fails.
EOF == -1
IO_ERR == -2

IsByte(item) == item >= 0

-----------------------------------------------------------------------------
(* Results.  A call ends in Ok(v), in Err(e), or in a panic (the process   *)
(* aborts).  Every result is paired with the reader state it leaves.       *)

Ok(c, v) == [c |-> c, k |-> "Ok", v |-> v]
Err(c, e) == [c |-> c, k |-> "Err", v |-> e]
Panic(c) == [c |-> c, k |-> "Panic", v |-> [e |-> "panic"]]

EOFError == [e |-> "EOFError"]
IOError == [e |-> "IOError"]
LeadZeroError == [e |-> "LeadZeroError"]
NegativeZeroError == [e |-> "NegativeZeroError"]
ParseIntError(kind) == [e |-> "ParseIntError", kind |-> kind]
UnexpectedCharError(ch) == [e |-> "UnexpectedCharError", ch |-> ch]
MissingPrefixError(found, expected) ==
    [e |-> "MissingPrefixError", found |-> found, expected |-> expected]
MissingSeparatorError(found, expected) ==
    [e |-> "MissingSeparatorError", found |-> found, expected |-> expected]
MissingSuffixError(found, expected) ==
    [e |-> "MissingSuffixError", found |-> found, expected |-> expected]
NegativeStringLength(len) == [e |-> "NegativeStringLength", len |-> len]
KeyNotString(v) == [e |-> "KeyNotString", value |-> v]
MissingValueError(key) == [e |-> "MissingValueError", key |-> key]
KeysOutOfOrder(key) == [e |-> "KeysOutOfOrder", key |-> key]

-----------------------------------------------------------------------------
(* BEValue.  An i64 is kept as sign and canonical decimal magnitude (most  *)
(* significant digit first), since it does not fit TLC's integers. *)

BEString(s) == [t |-> "BEString", s |-> s]
BEInteger(i) == [t |-> "BEInteger", i |-> i]
BEList(l) == [t |-> "BEList", l |-> l]
BEDict(d) == [t |-> "BEDict", d |-> d]
\* Option::None of next_value's Ok(None)
NoValue == [t |-> "None"]

I64(neg, mag) == [neg |-> neg, mag |-> mag]
I64_MAX_DIGITS == <<9,2,2,3,3,7,2,0,3,6,8,5,4,7,7,5,8,0,7>>

Min2(a, b) == IF a <= b THEN a ELSE b

\* a < b for canonical decimal magnitudes
RECURSIVE LexLess(_, _, _)
LexLess(a, b, i) ==
    IF i > Len(a) THEN FALSE
    ELSE IF a[i] # b[i] THEN a[i] < b[i]
    ELSE LexLess(a, b, i + 1)

DecLess(a, b) ==
    IF Len(a) # Len(b) THEN Len(a) < Len(b) ELSE LexLess(a, b, 1)

RECURSIVE StripZeros(_)
StripZeros(d) ==
    IF Len(d) > 1 /\ d[1] = 0 THEN StripZeros(Tail(d)) ELSE d

RECURSIVE NatToDec(_)
NatToDec(n) ==
    IF n < 10 THEN <<n>> ELSE Append(NatToDec(n \div 10), n % 10)

RECURSIVE DecToNat(_)
DecToNat(d) ==
    IF Len(d) = 0 THEN 0
    ELSE 10 * DecToNat(SubSeq(d, 1, Len(d) - 1)) + d[Len(d)]

\* str::parse::<i64> of a buffer of ASCII digits: Empty on no digits,
\* PosOverflow above i64::MAX, else the number the digits denote.
ParseI64(buf) ==
    LET mag == StripZeros([j \in 1..Len(buf) |-> buf[j] - ZERO_CHAR])
    IN  IF Len(buf) = 0 THEN [ok |-> FALSE, kind |-> "Empty", mag |-> <<>>]
        ELSE IF DecLess(I64_MAX_DIGITS, mag)
             THEN [ok |-> FALSE, kind |-> "PosOverflow", mag |-> <<>>]
        ELSE [ok |-> TRUE, kind |-> "", mag |-> mag]

\* value * minus, for value >= 0 and minus in {1, -1}
I64Mul(mag, minus) == I64(minus < 0 /\ mag # <<0>>, mag)

-----------------------------------------------------------------------------
(* Peekable<Bytes<R>>: pos counts the items already pulled from the source,*)
(* peeked holds the item a peek pulled and no next has taken yet.          *)

NewChars == [pos |-> 0, peeked |-> <<>>]

\* The source: src.head, then src.fill times the byte src.byte, then
\* src.tail.  SrcLen is the number of items it yields, SrcAt(i) the i-th.
SrcLen == Len(src.head) + src.fill + Len(src.tail)
SrcAt(i) ==
    IF i <= Len(src.head) THEN src.head[i]
    ELSE IF i <= Len(src.head) + src.fill THEN src.byte
    ELSE src.tail[i - Len(src.head) - src.fill]

\* Bytes<R>::next
BytesNext(pos) ==
    IF pos < SrcLen THEN [item |-> SrcAt(pos + 1), pos |-> pos + 1]
    ELSE [item |-> EOF, pos |-> pos]

\* Peekable::peek
CharsPeek(c) ==
    IF c.peeked # <<>> THEN [item |-> c.peeked[1], c |-> c]
    ELSE [item |-> BytesNext(c.pos).item,
          c |-> [pos |-> BytesNext(c.pos).pos, peeked |-> <<BytesNext(c.pos).item>>]]

\* Peekable::next
CharsNext(c) ==
    IF c.peeked # <<>>
    THEN [item |-> c.peeked[1], c |-> [pos |-> c.pos, peeked |-> <<>>]]
    ELSE [item |-> BytesNext(c.pos).item,
          c |-> [pos |-> BytesNext(c.pos).pos, peeked |-> <<>>]]

\* The ? operator: an Err (or a panic) of r ends the caller with it,
\* an Ok goes on with Then(r).
Try(r, Then(_)) == IF r.k # "Ok" THEN r ELSE Then(r)

\* A peek that takes a failed read for the end of the source
TakePeekedError_FailureIsEOF(n) ==
    IF n.item = IO_ERR THEN Err(n.c, EOFError) ELSE Panic(n.c)

\* next() "on the assumption that it will return the same value as the last
\* call to peek()": n is what that next() returned.
TakePeekedError(n) ==
    IF n.item = IO_ERR THEN Err(n.c, IOError) ELSE Panic(n.c)

\* The match of peeked_char over p, what peek() returned.
\* Ok(PeekedValue::EOF) is Ok(EOF), Ok(PeekedValue::ASCII(ch)) is Ok(ch).
MatchPeeked(p) ==
    IF p.item = EOF THEN Ok(p.c, EOF)
    ELSE IF p.item = IO_ERR THEN TakePeekedError(CharsNext(p.c))
    ELSE Ok(p.c, p.item)

peeked_char(c) == MatchPeeked(CharsPeek(c))

peek_char_no_eof(c) ==
    Try(peeked_char(c), LAMBDA p : IF p.v = EOF THEN Err(p.c, EOFError) ELSE p)

\* The match of next_char_no_eof over n, what next() returned
MatchNext(n) ==
    IF n.item = EOF THEN Err(n.c, EOFError)
    ELSE IF n.item = IO_ERR THEN Err(n.c, IOError)
    ELSE Ok(n.c, n.item)

next_char_no_eof(c) == MatchNext(CharsNext(c))

\* errkind names the error constructor errf
check_next_char(c, expected, errkind) ==
    Try(next_char_no_eof(c), LAMBDA n :
        IF expected # n.v
        THEN Err(n.c, [e |-> errkind, found |-> n.v, expected |-> expected])
        ELSE Ok(n.c, <<>>))

check_prefix(c, expected) == check_next_char(c, expected, "MissingPrefixError")

-----------------------------------------------------------------------------
(* The parser.                                                             *)

\* The k-th item (from 0) the reader will yield next, the reader after n
\* items were taken from it, and the reader after n items were taken and the
\* next one was peeked.
Upcoming(c, k) ==
    IF k = 0 /\ c.peeked # <<>> THEN c.peeked[1]
    ELSE IF c.pos + k + 1 - Len(c.peeked) <= SrcLen
         THEN SrcAt(c.pos + k + 1 - Len(c.peeked))
    ELSE EOF

Advance(c, n) ==
    IF n = 0 THEN c
    ELSE [pos |-> Min2(SrcLen, c.pos + n - Len(c.peeked)), peeked |-> <<>>]

PeekAt(c, n) == CharsPeek(Advance(c, n)).c

Available(c) == SrcLen - c.pos + Len(c.peeked)

Least(set) == CHOOSE k \in set : \A j \in set : k <= j

LeastOr(set, default) == IF set = {} THEN default ELSE Least(set)

\* The number of leading digits the loop of read_raw_integer looks at
\* before it stops: it peeks item after item and goes on while the item is
\* a digit and the buffer has room.
DigitRun(c) ==
    LeastOr({k \in 0..(Min2(Available(c), INT_BUF_LEN) - 1) :
                ~is_ascii_digit(Upcoming(c, k))},
            Min2(Available(c), INT_BUF_LEN))

\* A digit loop that lets a leading zero pass
DigitLoopAt_NoLeadZero(c, run) ==
    IF Upcoming(c, run) = EOF THEN Err(PeekAt(c, run), EOFError)
    ELSE IF Upcoming(c, run) = IO_ERR THEN Err(Advance(c, run + 1), IOError)
    ELSE IF is_ascii_digit(Upcoming(c, run)) THEN Panic(PeekAt(c, run))
    ELSE Ok(PeekAt(c, run), [j \in 1..run |-> Upcoming(c, j - 1)])

\* The digit loop of read_raw_integer, all its iterations in one step (the
\* loop is summarised: a digit run can be longer than TLC's evaluation
\* depth); run is DigitRun(c).  At index 1 a leading zero is LeadZeroError.
\* At index INT_BUF_LEN a further digit is stored outside the buffer: a
\* panic.  Otherwise the item after the digits decides: the end of the
\* source and a failed read are errors, any other byte ends the loop.
DigitLoopAt(c, run) ==
    IF run >= 2 /\ Upcoming(c, 0) = ZERO_CHAR
    THEN Err(PeekAt(c, 1), LeadZeroError)
    ELSE IF Upcoming(c, run) = EOF THEN Err(PeekAt(c, run), EOFError)
    ELSE IF Upcoming(c, run) = IO_ERR THEN Err(Advance(c, run + 1), IOError)
    ELSE IF is_ascii_digit(Upcoming(c, run)) THEN Panic(PeekAt(c, run))
    ELSE Ok(PeekAt(c, run), [j \in 1..run |-> Upcoming(c, j - 1)])

DigitLoop(c) == DigitLoopAt(c, DigitRun(c))

\* "Check for minus sign": the reader after it and the sign read.
MinusCheck(c) ==
    Try(peeked_char(c), LAMBDA p :
        IF p.v = MINUS_SIGN THEN Ok(CharsNext(p.c).c, -1) ELSE Ok(p.c, 1))

\* The tail of read_raw_integer: value is the parse of the digits; reject
\* -0, apply the sign.
SignedValue(c, value, minus) ==
    IF ~value.ok THEN Err(c, ParseIntError(value.kind))
    ELSE IF value.mag = <<0>> /\ minus < 0 THEN Err(c, NegativeZeroError)
    ELSE Ok(c, I64Mul(value.mag, minus))

read_raw_integer(c) ==
    Try(MinusCheck(c), LAMBDA m :
    Try(DigitLoop(m.c), LAMBDA d :
        SignedValue(d.c, ParseI64(d.v), m.v)))

read_integer(c) ==
    Try(check_prefix(c, I_CHAR), LAMBDA p :
    Try(read_raw_integer(p.c), LAMBDA value :
    Try(check_next_char(value.c, E_CHAR, "MissingSuffixError"), LAMBDA s :
        Ok(s.c, BEInteger(value.v)))))

\* The index at which read_string's copy loop stops, for a declared length
\* len (a decimal magnitude).  Iteration index takes the next item first
\* (next_char_no_eof()?) and then stores it (buf[index] = ...), so it stops
\* at the least index that is len, or whose item is no byte, or that is
\* outside the buffer.  The loop is summarised because one string can hold
\* more than STR_BUF_LEN bytes.
CopyLimit(c, len) ==
    IF DecLess(len, NatToDec(Min2(Available(c), STR_BUF_LEN)))
    THEN DecToNat(len)
    ELSE Min2(Available(c), STR_BUF_LEN)

StopIndex(c, len) ==
    LeastOr({k \in 0..(CopyLimit(c, len) - 1) : ~IsByte(Upcoming(c, k))},
            CopyLimit(c, len))

CopyLoopAt(c, len, stop) ==
    IF ~DecLess(NatToDec(stop), len)
    THEN Ok(Advance(c, stop), [j \in 1..stop |-> Upcoming(c, j - 1)])
    ELSE IF Upcoming(c, stop) = EOF THEN Err(Advance(c, stop), EOFError)
    ELSE IF Upcoming(c, stop) = IO_ERR THEN Err(Advance(c, stop + 1), IOError)
    ELSE Panic(Advance(c, stop + 1))

CopyLoop(c, len) == CopyLoopAt(c, len, StopIndex(c, len))

\* A read_string that takes whatever byte follows the length as the separator
read_string_AnySeparator(c) ==
    Try(read_raw_integer(c), LAMBDA len :
        IF len.v.neg THEN Err(len.c, NegativeStringLength(len.v))
        ELSE Try(next_char_no_eof(len.c), LAMBDA s :
             Try(CopyLoop(s.c, len.v.mag), LAMBDA b :
                 Ok(b.c, BEString(b.v)))))

read_string(c) ==
    Try(read_raw_integer(c), LAMBDA len :
        IF len.v.neg THEN Err(len.c, NegativeStringLength(len.v))
        ELSE Try(check_next_char(len.c, COLON_CHAR, "MissingSeparatorError"), LAMBDA s :
             Try(CopyLoop(s.c, len.v.mag), LAMBDA b :
                 Ok(b.c, BEString(b.v)))))

\* Vec<u8> ordering: a <= b, byte-lexicographic
RECURSIVE BytesLeq(_, _)
BytesLeq(a, b) ==
    IF Len(a) = 0 THEN TRUE
    ELSE IF Len(b) = 0 THEN FALSE
    ELSE IF a[1] # b[1] THEN a[1] < b[1]
    ELSE BytesLeq(Tail(a), Tail(b))

\* String::from_utf8_lossy(&key).to_string(), as code points.  The sources
\* of this model hold ASCII bytes and 0xFF only; 0xFF is never valid UTF-8
\* and becomes U+FFFD.
REPLACEMENT_CHARACTER == 65533
from_utf8_lossy(key) ==
    [j \in 1..Len(key) |-> IF key[j] < 128 THEN key[j] ELSE REPLACEMENT_CHARACTER]

\* HashMap::insert
DictInsert(dict, key, value) ==
    [k \in DOMAIN dict \cup {key} |-> IF k = key THEN value ELSE dict[k]]

RECURSIVE next_value(_)

next_value_no_eof(c) ==
    Try(next_value(c), LAMBDA r :
        IF r.v = NoValue THEN Err(r.c, EOFError) ELSE r)

\* The loop of read_list
RECURSIVE ListLoop(_, _)
ListLoop(c, result) ==
    Try(peek_char_no_eof(c), LAMBDA p :
        IF p.v = E_CHAR
        THEN Try(next_char_no_eof(p.c), LAMBDA n : Ok(n.c, BEList(result)))
        ELSE Try(next_value_no_eof(p.c), LAMBDA v :
                 ListLoop(v.c, Append(result, v.v))))

read_list(c) ==
    Try(check_prefix(c, L_CHAR), LAMBDA p : ListLoop(p.c, <<>>))

\* The key-order check of read_dict; last_key is <<>> (None) or <<key>>.
KeyOrderBad(key, last_key) == last_key # <<>> /\ BytesLeq(key, last_key[1])

\* The loop of read_dict
RECURSIVE DictLoop(_, _, _)

\* A loop whose KeyNotString carries the dict built so far, not the key read
DictLoop_CarriesDict(c, dict, last_key) ==
    Try(peek_char_no_eof(c), LAMBDA p :
        IF p.v = E_CHAR
        THEN Try(next_char_no_eof(p.c), LAMBDA n : Ok(n.c, BEDict(dict)))
        ELSE
    Try(next_value_no_eof(p.c), LAMBDA key :
        IF key.v.t # "BEString" THEN Err(key.c, KeyNotString(BEDict(dict)))
        ELSE
    Try(peek_char_no_eof(key.c), LAMBDA q :
        IF q.v = E_CHAR
        THEN Err(q.c, MissingValueError(from_utf8_lossy(key.v.s)))
        ELSE
    Try(next_value_no_eof(q.c), LAMBDA value :
        IF KeyOrderBad(key.v.s, last_key)
        THEN Err(value.c, KeysOutOfOrder(from_utf8_lossy(key.v.s)))
        ELSE DictLoop(value.c, DictInsert(dict, key.v.s, value.v), <<key.v.s>>)))))

\* A loop that checks the order of a key as soon as the key is read
DictLoop_OrderFirst(c, dict, last_key) ==
    Try(peek_char_no_eof(c), LAMBDA p :
        IF p.v = E_CHAR
        THEN Try(next_char_no_eof(p.c), LAMBDA n : Ok(n.c, BEDict(dict)))
        ELSE
    Try(next_value_no_eof(p.c), LAMBDA key :
        IF key.v.t # "BEString" THEN Err(key.c, KeyNotString(key.v))
        ELSE IF KeyOrderBad(key.v.s, last_key)
        THEN Err(key.c, KeysOutOfOrder(from_utf8_lossy(key.v.s)))
        ELSE
    Try(peek_char_no_eof(key.c), LAMBDA q :
        IF q.v = E_CHAR
        THEN Err(q.c, MissingValueError(from_utf8_lossy(key.v.s)))
        ELSE
    Try(next_value_no_eof(q.c), LAMBDA value :
        DictLoop(value.c, DictInsert(dict, key.v.s, value.v), <<key.v.s>>)))))

DictLoop(c, dict, last_key) ==
    Try(peek_char_no_eof(c), LAMBDA p :
        IF p.v = E_CHAR
        THEN Try(next_char_no_eof(p.c), LAMBDA n : Ok(n.c, BEDict(dict)))
        ELSE
    Try(next_value_no_eof(p.c), LAMBDA key :
        IF key.v.t # "BEString" THEN Err(key.c, KeyNotString(key.v))
        ELSE
    Try(peek_char_no_eof(key.c), LAMBDA q :
        IF q.v = E_CHAR
        THEN Err(q.c, MissingValueError(from_utf8_lossy(key.v.s)))
        ELSE
    Try(next_value_no_eof(q.c), LAMBDA value :
        IF KeyOrderBad(key.v.s, last_key)
        THEN Err(value.c, KeysOutOfOrder(from_utf8_lossy(key.v.s)))
        ELSE DictLoop(value.c, DictInsert(dict, key.v.s, value.v), <<key.v.s>>)))))

read_dict(c) ==
    Try(check_prefix(c, D_CHAR), LAMBDA p : DictLoop(p.c, <<>>, <<>>))

\* A dispatch that takes the byte it rejects out of the source
Dispatch_Consuming(p) ==
    IF p.v = EOF THEN Ok(p.c, NoValue)
    ELSE IF is_ascii_digit(p.v) THEN read_string(p.c)
    ELSE IF p.v = I_CHAR THEN read_integer(p.c)
    ELSE IF p.v = L_CHAR THEN read_list(p.c)
    ELSE IF p.v = D_CHAR THEN read_dict(p.c)
    ELSE Err(CharsNext(p.c).c, UnexpectedCharError(p.v))

\* A dispatch that takes a '-' for the start of a string's length
Dispatch_MinusIsString(p) ==
    IF p.v = EOF THEN Ok(p.c, NoValue)
    ELSE IF is_ascii_digit(p.v) \/ p.v = MINUS_SIGN THEN read_string(p.c)
    ELSE IF p.v = I_CHAR THEN read_integer(p.c)
    ELSE IF p.v = L_CHAR THEN read_list(p.c)
    ELSE IF p.v = D_CHAR THEN read_dict(p.c)
    ELSE Err(p.c, UnexpectedCharError(p.v))

\* The match of next_value over p, what peeked_char returned
Dispatch(p) ==
    IF p.v = EOF THEN Ok(p.c, NoValue)
    ELSE IF is_ascii_digit(p.v) THEN read_string(p.c)
    ELSE IF p.v = I_CHAR THEN read_integer(p.c)
    ELSE IF p.v = L_CHAR THEN read_list(p.c)
    ELSE IF p.v = D_CHAR THEN read_dict(p.c)
    ELSE Err(p.c, UnexpectedCharError(p.v))

next_value(c) == Try(peeked_char(c), Dispatch)

-----------------------------------------------------------------------------
(* Byte sources.  A source is described by wire trees: the shape of an     *)
(* encoding, valid or not.  S holds a string's content, I the text between *)
(* 'i' and 'e', L a list's elements, D a dict's keys and values in turn; X *)
(* is a string of n bytes 'x', kept by its length n.                       *)

S(b) == [t |-> "S", b |-> b, kids |-> <<>>]
I(b) == [t |-> "I", b |-> b, kids |-> <<>>]
L(kids) == [t |-> "L", b |-> <<>>, kids |-> kids]
D(kids) == [t |-> "D", b |-> <<>>, kids |-> kids]
X(n) == [t |-> "X", b |-> <<n>>, kids |-> <<>>]

Fill(n) == [j \in 1..n |-> 120]
IsStringTree(tree) == tree.t \in {"S", "X"}
Content(tree) == IF tree.t = "X" THEN Fill(tree.b[1]) ELSE tree.b
ContentLen(tree) == IF tree.t = "X" THEN tree.b[1] ELSE Len(tree.b)

\* The decimal text of a natural number, as bytes
DecBytes(n) == LET d == NatToDec(n) IN [j \in 1..Len(d) |-> d[j] + ZERO_CHAR]

RECURSIVE Enc(_), EncAll(_)
Enc(tree) ==
    IF IsStringTree(tree)
    THEN DecBytes(ContentLen(tree)) \o <<COLON_CHAR>> \o Content(tree)
    ELSE IF tree.t = "I" THEN <<I_CHAR>> \o tree.b \o <<E_CHAR>>
    ELSE IF tree.t = "L" THEN <<L_CHAR>> \o EncAll(tree.kids) \o <<E_CHAR>>
    ELSE <<D_CHAR>> \o EncAll(tree.kids) \o <<E_CHAR>>
EncAll(trees) ==
    IF Len(trees) = 0 THEN <<>> ELSE Enc(trees[1]) \o EncAll(Tail(trees))

\* The wire grammar's integer text: ["-"] digits, no leading zero unless the
\* text is "0", no "-0", and a value from -2^63 to 2^63-1.
IntDigits(text) ==
    IF Len(text) > 0 /\ text[1] = MINUS_SIGN THEN Tail(text) ELSE text
IntNeg(text) == Len(text) > 0 /\ text[1] = MINUS_SIGN
DigitValues(digits) == [j \in 1..Len(digits) |-> digits[j] - ZERO_CHAR]
CanonicalDigits(digits) ==
    /\ Len(digits) > 0
    /\ \A j \in 1..Len(digits) : is_ascii_digit(digits[j])
    /\ (Len(digits) > 1 => digits[1] # ZERO_CHAR)
I64_MIN_MAGNITUDE == <<9,2,2,3,3,7,2,0,3,6,8,5,4,7,7,5,8,0,8>>
ValidIntText(text) ==
    /\ CanonicalDigits(IntDigits(text))
    /\ ~(IntNeg(text) /\ IntDigits(text) = <<ZERO_CHAR>>)
    /\ IF IntNeg(text)
       THEN ~DecLess(I64_MIN_MAGNITUDE, DigitValues(IntDigits(text)))
       ELSE ~DecLess(I64_MAX_DIGITS, DigitValues(IntDigits(text)))

RECURSIVE KeysIncreasing(_, _)
KeysIncreasing(kids, j) ==
    IF j + 2 > Len(kids) THEN TRUE
    ELSE /\ ~BytesLeq(Content(kids[j + 2]), Content(kids[j]))
         /\ KeysIncreasing(kids, j + 2)

\* A valid encoding's tree
RECURSIVE Valid(_)
Valid(tree) ==
    IF IsStringTree(tree) THEN TRUE
    ELSE IF tree.t = "I" THEN ValidIntText(tree.b)
    ELSE IF tree.t = "L" THEN \A j \in 1..Len(tree.kids) : Valid(tree.kids[j])
    ELSE /\ Len(tree.kids) % 2 = 0
         /\ \A j \in 1..Len(tree.kids) : Valid(tree.kids[j])
         /\ \A j \in 1..Len(tree.kids) : j % 2 = 1 => IsStringTree(tree.kids[j])
         /\ KeysIncreasing(tree.kids, 1)

\* The value a valid tree denotes
RECURSIVE ValueOf(_)
ValueOf(tree) ==
    IF IsStringTree(tree) THEN BEString(Content(tree))
    ELSE IF tree.t = "I"
         THEN BEInteger(I64(IntNeg(tree.b), DigitValues(IntDigits(tree.b))))
    ELSE IF tree.t = "L"
         THEN BEList([j \in 1..Len(tree.kids) |-> ValueOf(tree.kids[j])])
    ELSE BEDict([key \in {Content(tree.kids[j]) : j \in {i \in 1..Len(tree.kids) : i % 2 = 1}}
                  |-> ValueOf(tree.kids[
                        (CHOOSE j \in 1..Len(tree.kids) :
                            j % 2 = 1 /\ Content(tree.kids[j]) = key) + 1])])

\* Bounds of the sources explored
MaxLen == 3       \* raw sources: every byte sequence up to this length
MaxNodes == 3     \* trees: every tree of up to this many nodes
MaxVals == 2      \* concatenations of up to this many encodings
MaxCalls == 3     \* next_value calls on one reader

RawBytes == {ZERO_CHAR, 49, MINUS_SIGN, COLON_CHAR, I_CHAR, L_CHAR, D_CHAR, E_CHAR, 120}

RECURSIVE SeqsUpTo(_, _)
SeqsUpTo(set, n) ==
    IF n = 0 THEN {<<>>}
    ELSE LET shorter == SeqsUpTo(set, n - 1)
         IN  shorter \cup {Append(q, x) : q \in {r \in shorter : Len(r) = n - 1}, x \in set}

Atoms == {S(<<>>), S(<<E_CHAR>>), S(<<255>>), I(<<ZERO_CHAR>>), I(<<MINUS_SIGN, 52, 53>>)}

\* TreesOfSize[n]: the trees of exactly n nodes; ForestsOfSize[m]: the
\* sequences of trees of m nodes in all.
RECURSIVE TreesOfSize(_), ForestsOfSize(_)
TreesOfSize(n) ==
    IF n = 1 THEN Atoms \cup {L(<<>>), D(<<>>)}
    ELSE {L(f) : f \in ForestsOfSize(n - 1)} \cup {D(f) : f \in ForestsOfSize(n - 1)}
ForestsOfSize(m) ==
    IF m = 0 THEN {<<>>}
    ELSE UNION {{<<tr>> \o f : tr \in TreesOfSize(k), f \in ForestsOfSize(m - k)} : k \in 1..m}

TreesUpTo(n) == UNION {TreesOfSize(k) : k \in 1..n}

\* Inputs of the repository's tests, and the edges of the integer and
\* string buffers.
Digits(n, first) == [j \in 1..n |-> IF j = 1 THEN first ELSE ZERO_CHAR]
TestTrees == {
    I(<<52, 53>>), I(<<45, 52, 53>>), I(<<48, 51, 50>>), I(<<45, 48>>), I(<<48, 48>>),
    S(<<117, 110, 105, 99, 111, 114, 110>>), S(<<117, 110, 105, 99, 111, 114, 110, 102, 97, 114, 116, 115>>), S(<<49, 50, 51, 52>>), S(<<113, 117, 117, 120>>),
    L(<<S(<<102, 111, 111>>)>>), L(<<I(<<51, 50>>), I(<<52, 53>>)>>),
    L(<<I(<<45, 56, 56>>), S(<<113, 117, 117, 120>>), I(<<50, 51>>)>>),
    L(<<L(<<S(<<109, 111, 111, 114, 101>>)>>), L(<<S(<<98, 97, 114>>), S(<<113, 117, 117, 120>>)>>)>>),
    L(<<L(<<L(<<L(<<>>), D(<<>>)>>)>>), L(<<>>)>>),
    D(<<S(<<111, 110, 101>>), S(<<119, 111, 114, 100>>)>>),
    D(<<S(<<116, 111>>), I(<<51, 50>>), S(<<116, 119, 111>>), S(<<119, 111, 114, 100, 115>>)>>),
    D(<<S(<<122, 122, 122>>), S(<<119, 111, 114, 100, 115>>), S(<<97, 97, 97>>), I(<<55>>)>>),
    D(<<S(<<116, 119, 111>>), S(<<119, 111, 114, 100, 115>>), S(<<109, 105, 115, 115, 105, 110, 103>>)>>),
    D(<<I(<<54, 54, 54>>), S(<<119, 111, 114, 100, 115>>), S(<<115, 101, 99, 111, 110, 100>>), I(<<52, 50>>)>>) }
EdgeTrees == {
    I(<<57, 50, 50, 51, 51, 55, 50, 48, 51, 54, 56, 53, 52, 55, 55, 53, 56, 48, 55>>), I(<<57, 50, 50, 51, 51, 55, 50, 48, 51, 54, 56, 53, 52, 55, 55, 53, 56, 48, 56>>),
    I(<<45, 57, 50, 50, 51, 51, 55, 50, 48, 51, 54, 56, 53, 52, 55, 55, 53, 56, 48, 55>>), I(<<45, 57, 50, 50, 51, 51, 55, 50, 48, 51, 54, 56, 53, 52, 55, 55, 53, 56, 48, 56>>),
    I(<<45, 57, 50, 50, 51, 51, 55, 50, 48, 51, 54, 56, 53, 52, 55, 55, 53, 56, 48, 57>>), I(<<49, 48, 48, 48, 48, 48, 48, 48, 48, 48, 48, 48, 48, 48, 48, 48, 48, 48, 48, 48>>),
    I(Digits(INT_BUF_LEN, 49)), I(Digits(INT_BUF_LEN + 1, 49)),
    I(<<MINUS_SIGN>> \o Digits(INT_BUF_LEN + 1, 49)),
    I(Digits(INT_BUF_LEN + 1, ZERO_CHAR)),
    X(STR_BUF_LEN + 1), L(<<X(STR_BUF_LEN + 1)>>),
    D(<<S(<<255>>), I(<<ZERO_CHAR>>), X(STR_BUF_LEN + 1), I(<<ZERO_CHAR>>)>>),
    D(<<X(STR_BUF_LEN + 1)>>),
    D(<<S(<<E_CHAR>>), X(STR_BUF_LEN + 1), S(<<>>), I(<<ZERO_CHAR>>)>>),
    D(<<S(<<E_CHAR>>), X(STR_BUF_LEN + 1), S(<<>>)>>),
    D(<<S(<<E_CHAR>>), I(<<ZERO_CHAR>>), S(<<>>),
        I(<<45, 57, 50, 50, 51, 51, 55, 50, 48, 51, 54, 56, 53, 52, 55, 55, 53, 56, 48, 56>>)>>),
    D(<<I(<<45, 57, 50, 50, 51, 51, 55, 50, 48, 51, 54, 56, 53, 52, 55, 55, 53, 56, 48, 56>>)>>) }

\* An origin names the trees whose encodings are concatenated, how many
\* bytes of that are kept, and the bytes that follow.
Origin(trees, cut, tail) == [trees |-> trees, cut |-> cut, tail |-> tail]
Whole(trees) == Origin(trees, Len(EncAll(trees)), <<>>)

RawOrigins == {Origin(<<>>, 0, tail) : tail \in SeqsUpTo(RawBytes, MaxLen)}
TreeOrigins == {Whole(<<tr>>) : tr \in TreesUpTo(MaxNodes) \cup TestTrees \cup EdgeTrees}
ConcatOrigins == {Whole(trs) : trs \in SeqsUpTo(TreesUpTo(2), MaxVals)}
\* (no encoding of these trees is longer than 8 * (MaxNodes + 1) bytes)
PrefixOrigins ==
    {Origin(<<x[1]>>, x[2], <<>>) :
        x \in {y \in (TreesUpTo(MaxNodes) \cup TestTrees) \X (1..(8 * (MaxNodes + 1))) :
                    Valid(y[1]) /\ y[2] < Len(Enc(y[1]))}}
EdgeOrigins ==
    {Origin(<<X(STR_BUF_LEN + 2)>>, Len(Enc(X(STR_BUF_LEN + 1))), <<>>),
     Origin(<<X(STR_BUF_LEN)>>, Len(Enc(X(STR_BUF_LEN))) - 1, <<>>),
     Whole(<<X(STR_BUF_LEN + 1), I(<<ZERO_CHAR>>)>>),
     Whole(<<I(<<ZERO_CHAR>>), X(STR_BUF_LEN + 1)>>),
     Origin(<<>>, 0, [j \in 1..19 |-> I64_MAX_DIGITS[j] + ZERO_CHAR] \o <<120>>),
     Origin(<<>>, 0, [j \in 1..19 |-> I64_MIN_MAGNITUDE[j] + ZERO_CHAR] \o <<120>>),
     Origin(<<I(<<MINUS_SIGN, ZERO_CHAR, 49>>)>>, 5, <<>>),
     Origin(<<I(Digits(INT_BUF_LEN + 1, 49))>>, INT_BUF_LEN + 2, <<>>),
     Origin(<<S(<<117, 110, 105, 99, 111, 114, 110, 102, 97, 114, 116>>)>>, 14, <<115>>)}

\* Integer texts over a few digits and the sign, canonical or not
IntTextOrigins ==
    {Whole(<<I(t)>>) : t \in SeqsUpTo({ZERO_CHAR, 49, NINE_CHAR, MINUS_SIGN}, MaxLen)}

\* An integer without its 'e', followed by nothing or by one other byte
IntSamples == {<<48>>, <<49>>, <<45, 49>>, <<52, 53>>, <<45, 52, 53>>, <<57, 50, 50, 51, 51, 55, 50, 48, 51, 54, 56, 53, 52, 55, 55, 53, 56, 48, 55>>, <<45, 57, 50, 50, 51, 51, 55, 50, 48, 51, 54, 56, 53, 52, 55, 55, 53, 56, 48, 55>>, <<45, 57, 50, 50, 51, 51, 55, 50, 48, 51, 54, 56, 53, 52, 55, 55, 53, 56, 48, 56>>}
SuffixOrigins ==
    {Origin(<<I(t)>>, Len(t) + 1, tail) :
        t \in IntSamples, tail \in {<<>>} \cup {<<b>> : b \in RawBytes \ {E_CHAR}}}

\* A string followed by further bytes
StringOrigins ==
    {Origin(<<S(b)>>, Len(Enc(S(b))), tail) :
        b \in SeqsUpTo({E_CHAR, COLON_CHAR, 255}, 2), tail \in SeqsUpTo(RawBytes, 2)}

\* The trailing containers of a tree: how many 'e's end its encoding
RECURSIVE Closers(_)
Closers(tree) ==
    IF tree.t \in {"S", "X", "I"} THEN 0
    ELSE IF Len(tree.kids) = 0 THEN 1
    ELSE 1 + Closers(tree.kids[Len(tree.kids)])

\* A list or dict cut before its last k closing 'e's, followed by one byte
OpenOrigins ==
    {Origin(<<x[1]>>, Len(Enc(x[1])) - x[2], <<x[3]>>) :
        x \in {y \in TreesUpTo(MaxNodes) \X (1..MaxNodes) \X RawBytes :
                    y[2] <= Closers(y[1])}}

\* Dicts of one key more than the trees above hold, the last pair with or
\* without its value, over keys in and out of order
DictItems == {S(<<>>), S(<<E_CHAR>>), S(<<255>>), I(<<ZERO_CHAR>>), L(<<>>)}
DictOrigins ==
    {Whole(<<D(x[1] \o x[2])>>) :
        x \in {y \in SeqsUpTo(DictItems, MaxNodes) \X SeqsUpTo(DictItems, 1) :
                    Len(y[1]) = MaxNodes}}

\* A dict whose second key is not greater than its first, cut after that
\* key and followed by what stands for the key's value
DisorderTails ==
    SeqsUpTo(RawBytes, 2)
    \cup {Enc(tr) \o <<E_CHAR>> :
            tr \in {I(<<ZERO_CHAR, ZERO_CHAR>>), I(<<MINUS_SIGN, ZERO_CHAR>>),
                    I(<<49>>), S(<<120>>), L(<<>>), D(<<I(<<49>>)>>)}}
DisorderOrigins ==
    {Origin(<<D(<<S(<<E_CHAR>>), I(<<ZERO_CHAR>>), S(key)>>)>>,
            Len(Enc(D(<<S(<<E_CHAR>>), I(<<ZERO_CHAR>>), S(key)>>))) - 1, tail) :
        key \in {<<>>, <<E_CHAR>>}, tail \in DisorderTails}

IsOrigin(o) ==
    \/ o \in DictOrigins \/ o \in DisorderOrigins
    \/ o \in RawOrigins \/ o \in TreeOrigins \/ o \in ConcatOrigins
    \/ o \in PrefixOrigins \/ o \in EdgeOrigins \/ o \in IntTextOrigins
    \/ o \in SuffixOrigins \/ o \in StringOrigins \/ o \in OpenOrigins

\* A byte sequence as a source: split at its first run of the byte 'x'
SplitAt(bytes, first, end) ==
    IF first > Len(bytes)
    THEN [head |-> bytes, fill |-> 0, byte |-> 120, tail |-> <<>>]
    ELSE [head |-> SubSeq(bytes, 1, first - 1),
          fill |-> end - first, byte |-> 120,
          tail |-> SubSeq(bytes, end, Len(bytes))]
Pack(bytes) ==
    LET nonfill == {k \in 1..Len(bytes) : bytes[k] # 120}
        first == Least({k \in 1..(Cardinality(nonfill) + 1) : k \notin nonfill})
        end == Least({k \in nonfill : k > first} \cup {Len(bytes) + 1})
    IN  SplitAt(bytes, first, end)

SourceOf(o) == Pack(SubSeq(EncAll(o.trees), 1, o.cut) \o o.tail)

-----------------------------------------------------------------------------
(* The state machine: a reader is built over a source, and next_value is   *)
(* called on it again and again.                                           *)

Init ==
    /\ IsOrigin(origin)
    /\ src = SourceOf(origin)
    /\ chars = NewChars
    /\ results = <<>>
    /\ aborted = FALSE
    /\ job = [mode |-> "none"]
    /\ encoded = <<>>
    /\ decoded = <<>>

\* A call returned r: the reader is left as the call left it, the caller
\* holds the result, and a panic has ended the process.
Returned(r) ==
    /\ chars' = r.c
    /\ results' = Append(results, [k |-> r.k, v |-> r.v])
    /\ aborted' = (r.k = "Panic")

\* One call of the public next_value on the reader
NextValue ==
    /\ ~aborted
    /\ Len(results) < MaxCalls
    /\ Returned(next_value(chars))
    /\ UNCHANGED <<origin, src, job, encoded, decoded>>

Next == NextValue

Spec == Init /\ [][Next]_vars

-----------------------------------------------------------------------------
(* What the caller observes, and how a source was put together.            *)

OkResult(v) == [k |-> "Ok", v |-> v]
ErrResult(e) == [k |-> "Err", v |-> e]

\* The bytes the reader has used up: every byte pulled from the source but
\* the one the lookahead still holds.
Consumed(c) ==
    c.pos - (IF c.peeked # <<>> /\ IsByte(c.peeked[1]) THEN 1 ELSE 0)

AllValid(trees) == \A j \in 1..Len(trees) : Valid(trees[j])

\* The source is exactly the encodings of the origin's trees
IsWhole(o) == o.tail = <<>> /\ o.cut = Len(EncAll(o.trees))

\* A tree the parser's fixed buffers and its parse of the magnitude can hold:
\* no string longer than the string buffer, no integer equal to -2^63.
RECURSIVE WithinLimits(_)
WithinLimits(tree) ==
    IF IsStringTree(tree) THEN ContentLen(tree) <= STR_BUF_LEN
    ELSE IF tree.t = "I"
         THEN ~(IntNeg(tree.b) /\ DigitValues(IntDigits(tree.b)) = I64_MIN_MAGNITUDE)
    ELSE \A j \in 1..Len(tree.kids) : WithinLimits(tree.kids[j])

\* The results of the calls made so far are v1 .. vn and then None
ValuesThenNone(trees) ==
    \A j \in 1..Len(results) :
        results[j] = IF j <= Len(trees) THEN OkResult(ValueOf(trees[j]))
                     ELSE OkResult(NoValue)

\* After j <= n calls exactly the first j encodings are used up
ConsumedOnePerCall(trees) ==
    Len(results) <= Len(trees) =>
        Consumed(chars) = Len(EncAll(SubSeq(trees, 1, Len(results))))

-----------------------------------------------------------------------------
\* C1: on a source that is the concatenation of n >= 0 valid encodings
\* e1 .. en, successive next_value calls return Ok(v1) .. Ok(vn) and then
\* Ok(None); each successful call consumes exactly the bytes of one
\* encoding, and the one-byte lookahead never swallows a byte of the next.
C1_SuccessiveValues ==
    (IsWhole(origin) /\ AllValid(origin.trees)) =>
        /\ ValuesThenNone(origin.trees)
        /\ ConsumedOnePerCall(origin.trees)

\* C1 holds on every concatenation whose strings fit the string buffer and
\* whose integers are not -2^63: it fails only through C8 and C4.
C1_WithinLimits ==
    (/\ IsWhole(origin)
     /\ AllValid(origin.trees)
     /\ \A j \in 1..Len(origin.trees) : WithinLimits(origin.trees[j])) =>
        /\ ValuesThenNone(origin.trees)
        /\ ConsumedOnePerCall(origin.trees)

C1_WithinLimits_Reached ==
    /\ IsWhole(origin) /\ AllValid(origin.trees) /\ Len(origin.trees) = 2
    /\ Len(results) = 3
    /\ results[3] = OkResult(NoValue)

-----------------------------------------------------------------------------
\* C2: for every valid encoding e and every non-empty proper prefix p of e,
\* next_value on the source p returns EOFError: never a value, never
\* Ok(None), never another error kind.
IsProperPrefix(o) ==
    /\ o.tail = <<>> /\ Len(o.trees) = 1
    /\ 0 < o.cut /\ o.cut < Len(Enc(o.trees[1]))
    /\ Valid(o.trees[1])

C2_TruncationIsEOF ==
    (IsProperPrefix(origin) /\ Len(results) >= 1) =>
        results[1] = ErrResult(EOFError)

\* C2 holds for every prefix that holds no more than the string buffer's
\* length of a string's content: it fails only through C8.
C2_WithinLimits ==
    (/\ IsProperPrefix(origin)
     /\ WithinLimits(origin.trees[1])
     /\ Len(results) >= 1) =>
        results[1] = ErrResult(EOFError)

-----------------------------------------------------------------------------
\* C3: next_value selects the kind of the value from the first byte alone,
\* without consuming it: a digit starts a string, 'i' an integer, 'l' a list,
\* 'd' a dict, and any other byte b is UnexpectedCharError(b); the same
\* dispatch and the same error apply at every element position of a list
\* and every key or value position of a dict.
Dispatching == (ZERO_CHAR..NINE_CHAR) \cup {I_CHAR, L_CHAR, D_CHAR}

\* The kind of value each dispatching byte selects, and the errors the
\* parse of a string or of an integer can end with
KindOf(b) ==
    IF b = I_CHAR THEN "BEInteger"
    ELSE IF b = L_CHAR THEN "BEList"
    ELSE IF b = D_CHAR THEN "BEDict"
    ELSE "BEString"
StringErrors == {"EOFError", "LeadZeroError", "ParseIntError", "MissingSeparatorError"}
IntegerErrors ==
    {"EOFError", "LeadZeroError", "NegativeZeroError", "ParseIntError", "MissingSuffixError"}

\* The digits the source starts with, and the length they declare
LengthRun == Least({k \in 0..SrcLen : k = SrcLen \/ ~is_ascii_digit(SrcAt(k + 1))})
LengthDigits == [j \in 1..LengthRun |-> SrcAt(j)]
DeclaredLen == DecToNat(DigitValues(LengthDigits))

DispatchedBy(b, r) ==
    /\ r.k = "Ok" =>
        /\ r.v.t = KindOf(b)
        /\ is_ascii_digit(b) => Len(r.v.s) = DeclaredLen
    /\ r.k = "Err" =>
        /\ r.v # UnexpectedCharError(b)
        /\ r.v.e # "MissingPrefixError"
        /\ is_ascii_digit(b) => r.v.e \in StringErrors
        /\ b = I_CHAR => r.v.e \in IntegerErrors

\* The byte stays in the source: nothing is consumed, and every call reports it
RejectedUnconsumed(b) ==
    /\ \A j \in 1..Len(results) : results[j] = ErrResult(UnexpectedCharError(b))
    /\ Consumed(chars) = 0

\* The first n kids of a list or dict are read without an error
KidsOK(tree, n) ==
    /\ \A j \in 1..n : Valid(tree.kids[j])
    /\ tree.t = "D" =>
        /\ \A j \in 1..n : j % 2 = 1 => IsStringTree(tree.kids[j])
        /\ KeysIncreasing(SubSeq(tree.kids, 1, 2 * (n \div 2)), 1)

\* The tree's encoding without its last k closing 'e's leaves the parser at
\* an element, key or value position k containers deep
RECURSIVE OpenOK(_, _)
OpenOK(tree, k) ==
    IF k = 0 THEN Valid(tree)
    ELSE IF tree.t \notin {"L", "D"} THEN FALSE
    ELSE IF k = 1 THEN KidsOK(tree, Len(tree.kids))
    ELSE /\ Len(tree.kids) >= 1
         /\ KidsOK(tree, Len(tree.kids) - 1)
         /\ OpenOK(tree.kids[Len(tree.kids)], k - 1)

OpenDepth(o) == Len(Enc(o.trees[1])) - o.cut

IsOpen(o) ==
    /\ Len(o.trees) = 1 /\ Len(o.tail) >= 1
    /\ OpenDepth(o) \in 1..Closers(o.trees[1])
    /\ OpenOK(o.trees[1], OpenDepth(o))

C3_Dispatch ==
    /\ (Len(results) >= 1 /\ SrcLen >= 1 /\ IsByte(SrcAt(1))) =>
        IF SrcAt(1) \in Dispatching
        THEN DispatchedBy(SrcAt(1), results[1])
        ELSE RejectedUnconsumed(SrcAt(1))
    /\ (Len(results) >= 1 /\ IsOpen(origin)) =>
        IF origin.tail[1] \in Dispatching
        THEN results[1] # ErrResult(UnexpectedCharError(origin.tail[1]))
        ELSE origin.tail[1] # E_CHAR =>
                results[1] = ErrResult(UnexpectedCharError(origin.tail[1]))

\* A byte that starts no value was reported twice at the top level
C3_Witness ==
    /\ Len(results) >= 2 /\ SrcLen >= 1
    /\ SrcAt(1) \notin Dispatching
    /\ results[2] = ErrResult(UnexpectedCharError(SrcAt(1)))

\* ... and once in a dict two containers deep
C3_NestedReached ==
    /\ Len(results) >= 1 /\ IsOpen(origin) /\ OpenDepth(origin) = 2
    /\ origin.trees[1].t = "D"
    /\ results[1] = ErrResult(UnexpectedCharError(COLON_CHAR))

-----------------------------------------------------------------------------
\* The source is 'i', the text of the origin's one integer tree, 'e'
IsIntegerSource(o) ==
    /\ Len(o.trees) = 1 /\ o.trees[1].t = "I"
    /\ o.tail = <<>> /\ o.cut = Len(o.trees[1].b) + 2

IntText == origin.trees[1].b
IsMinI64(text) == IntNeg(text) /\ DigitValues(IntDigits(text)) = I64_MIN_MAGNITUDE

\* C4: for every integer n from -2^63 to 2^63-1, the source 'i' <canonical
\* decimal text of n> 'e' parses to BEInteger(n).
C4_AllI64 ==
    (IsIntegerSource(origin) /\ ValidIntText(IntText) /\ Len(results) >= 1) =>
        results[1] = OkResult(ValueOf(origin.trees[1]))

\* C4 holds for every n but -2^63, whose magnitude is parsed as a positive i64
C4_WithinLimits ==
    (/\ IsIntegerSource(origin) /\ ValidIntText(IntText) /\ ~IsMinI64(IntText)
     /\ Len(results) >= 1) =>
        results[1] = OkResult(ValueOf(origin.trees[1]))

C4_WithinLimits_Reached ==
    /\ IsIntegerSource(origin) /\ Len(results) >= 1
    /\ IntText = [j \in 1..20 |-> IF j = 1 THEN MINUS_SIGN ELSE I64_MAX_DIGITS[j - 1] + ZERO_CHAR]
    /\ results[1] = OkResult(BEInteger(I64(TRUE, I64_MAX_DIGITS)))

-----------------------------------------------------------------------------
\* C5: between 'i' and 'e', every digit sequence of length >= 2 that starts
\* with '0', with or without a leading '-', is LeadZeroError, and "i-0e" is
\* NegativeZeroError; neither ever yields a BEInteger.
AllDigits(digits) == \A j \in 1..Len(digits) : is_ascii_digit(digits[j])
HasLeadZero(text) ==
    /\ AllDigits(IntDigits(text))
    /\ Len(IntDigits(text)) >= 2
    /\ IntDigits(text)[1] = ZERO_CHAR

C5_NonCanonical ==
    (IsIntegerSource(origin) /\ Len(results) >= 1) =>
        /\ HasLeadZero(IntText) => results[1] = ErrResult(LeadZeroError)
        /\ IntText = <<MINUS_SIGN, ZERO_CHAR>> => results[1] = ErrResult(NegativeZeroError)

\* "i-01e" was rejected for its leading zero
C5_Witness ==
    /\ IsIntegerSource(origin) /\ Len(results) >= 1
    /\ IntText = <<MINUS_SIGN, ZERO_CHAR, 49>>
    /\ results[1] = ErrResult(LeadZeroError)

C5_NegativeZeroReached ==
    /\ IsIntegerSource(origin) /\ Len(results) >= 1
    /\ IntText = <<MINUS_SIGN, ZERO_CHAR>>
    /\ results[1] = ErrResult(NegativeZeroError)

-----------------------------------------------------------------------------
\* The source is 'i' and the origin's integer text, not closed by 'e':
\* it ends there, or the origin's tail follows
IsUnclosedInteger(o) ==
    /\ Len(o.trees) = 1 /\ o.trees[1].t = "I"
    /\ o.cut = Len(o.trees[1].b) + 1
    /\ ValidIntText(o.trees[1].b)
    /\ o.tail # <<>> => ~is_ascii_digit(o.tail[1]) /\ o.tail[1] # E_CHAR

SuffixChecked(o, r) ==
    IF o.tail = <<>> THEN r = ErrResult(EOFError)
    ELSE r = ErrResult(MissingSuffixError(o.tail[1], E_CHAR))

\* C6: when the byte that follows an integer's digits is not 'e', the parser
\* returns MissingSuffixError(found, 'e') with the byte it found; when the
\* source ends directly after the digits it returns EOFError.
C6_MissingSuffix ==
    (IsUnclosedInteger(origin) /\ Len(results) >= 1) =>
        SuffixChecked(origin, results[1])

\* C6 holds for the digits of every integer but -2^63: it fails only through C4
C6_WithinLimits ==
    (IsUnclosedInteger(origin) /\ ~IsMinI64(IntText) /\ Len(results) >= 1) =>
        SuffixChecked(origin, results[1])

C6_WithinLimits_Reached ==
    /\ IsUnclosedInteger(origin) /\ Len(results) >= 1
    /\ IntText = <<MINUS_SIGN, 52, 53>>
    /\ results[1] = ErrResult(MissingSuffixError(COLON_CHAR, E_CHAR))

-----------------------------------------------------------------------------
\* The integer text is canonical digits whose magnitude is above 2^63-1
IsOverflowText(text) ==
    /\ CanonicalDigits(IntDigits(text))
    /\ DecLess(I64_MAX_DIGITS, DigitValues(IntDigits(text)))

\* C7: canonical digits of any length whose magnitude does not fit an i64,
\* also when they are more than the parser's digit buffer holds, are
\* ParseIntError: never a wrapped or truncated value, never an abort.
C7_OverflowIsParseIntError ==
    (IsIntegerSource(origin) /\ IsOverflowText(IntText) /\ Len(results) >= 1) =>
        /\ results[1].k = "Err"
        /\ results[1].v.e = "ParseIntError"

\* C7 holds for every such text of no more digits than the digit buffer holds
C7_WithinLimits ==
    (/\ IsIntegerSource(origin) /\ IsOverflowText(IntText)
     /\ Len(IntDigits(IntText)) <= INT_BUF_LEN
     /\ Len(results) >= 1) =>
        /\ results[1].k = "Err"
        /\ results[1].v.e = "ParseIntError"

C7_WithinLimits_Reached ==
    /\ IsIntegerSource(origin) /\ IsOverflowText(IntText)
    /\ Len(IntDigits(IntText)) = INT_BUF_LEN
    /\ Len(results) >= 1
    /\ results[1] = ErrResult(ParseIntError("PosOverflow"))

-----------------------------------------------------------------------------
\* The source is the whole encoding of the origin's one string, of declared
\* length n with its n bytes, and then the origin's tail
IsStringSource(o) ==
    /\ Len(o.trees) = 1 /\ IsStringTree(o.trees[1])
    /\ o.cut = Len(Enc(o.trees[1]))

StringRead(o) ==
    /\ results[1] = OkResult(BEString(Content(o.trees[1])))
    /\ Len(results) = 1 => Consumed(chars) = o.cut

\* C8: a string of declared length n, with at least n bytes after the ':',
\* is returned as exactly those n bytes, verbatim (any byte values, 'e' and
\* ':' included), the rest of the source unconsumed: for every n, however
\* large, and never an abort.
C8_StringVerbatim ==
    (IsStringSource(origin) /\ Len(results) >= 1) => StringRead(origin)

\* C8 holds for every declared length up to the string buffer's length
C8_WithinLimits ==
    (/\ IsStringSource(origin)
     /\ ContentLen(origin.trees[1]) <= STR_BUF_LEN
     /\ Len(results) >= 1) => StringRead(origin)

C8_WithinLimits_Reached ==
    /\ IsStringSource(origin) /\ Len(results) = 1
    /\ Content(origin.trees[1]) = <<E_CHAR, COLON_CHAR>>
    /\ origin.tail = <<ZERO_CHAR, COLON_CHAR>>
    /\ results[1] = OkResult(BEString(<<E_CHAR, COLON_CHAR>>))
    /\ Consumed(chars) = 4

-----------------------------------------------------------------------------
\* The source starts with the digits of a string length the parser reads
\* (canonical, at most 2^63-1), and a byte follows them
HasLengthThenByte ==
    /\ CanonicalDigits(LengthDigits)
    /\ ~DecLess(I64_MAX_DIGITS, DigitValues(LengthDigits))
    /\ LengthRun < SrcLen
    /\ IsByte(SrcAt(LengthRun + 1))

\* C9: when the byte that follows a string's length digits is not ':', the
\* parser returns MissingSeparatorError(found, ':') with the byte it found.
C9_MissingSeparator ==
    (/\ Len(results) >= 1
     /\ HasLengthThenByte
     /\ SrcAt(LengthRun + 1) # COLON_CHAR) =>
        results[1] = ErrResult(MissingSeparatorError(SrcAt(LengthRun + 1), COLON_CHAR))

\* "10e" was rejected for its 'e'
C9_Witness ==
    /\ Len(results) >= 1
    /\ HasLengthThenByte
    /\ LengthDigits = <<49, ZERO_CHAR>>
    /\ results[1] = ErrResult(MissingSeparatorError(E_CHAR, COLON_CHAR))

-----------------------------------------------------------------------------
\* The source is the whole encoding of the origin's one list, valid
IsListSource(o) ==
    /\ IsWhole(o)
    /\ Len(o.trees) = 1 /\ o.trees[1].t = "L"
    /\ Valid(o.trees[1])

\* C10: 'l', the encodings of k >= 0 values, 'e' decodes to the BEList of
\* exactly those k values in wire order; lists nest to any depth, an 'e' ends
\* the innermost open list and what follows belongs to the enclosing list.
C10_Lists ==
    (IsListSource(origin) /\ Len(results) >= 1) =>
        results[1] = OkResult(ValueOf(origin.trees[1]))

\* C10 holds for every list whose strings fit the string buffer and whose
\* integers are not -2^63: it fails only through C8 and C4
C10_WithinLimits ==
    (IsListSource(origin) /\ WithinLimits(origin.trees[1]) /\ Len(results) >= 1) =>
        results[1] = OkResult(ValueOf(origin.trees[1]))

C10_WithinLimits_Reached ==
    /\ IsListSource(origin) /\ Len(results) >= 1
    /\ origin.trees[1] = L(<<L(<<>>), S(<<E_CHAR>>)>>)
    /\ results[1] = OkResult(BEList(<<BEList(<<>>), BEString(<<E_CHAR>>)>>))

-----------------------------------------------------------------------------
(* Dicts.                                                                  *)

\* The bytes of a text of code points (str::as_bytes); the texts of this
\* model hold code points below 128 and U+FFFD.
RECURSIVE Utf8(_)
Utf8(text) ==
    IF Len(text) = 0 THEN <<>>
    ELSE (IF text[1] = REPLACEMENT_CHARACTER THEN <<239, 191, 189>> ELSE <<text[1]>>)
         \o Utf8(Tail(text))

\* The source starts with a dict
StartsWithDict(o) == Len(o.trees) >= 1 /\ o.trees[1].t = "D"
DictKids == origin.trees[1].kids

\* The first n items of a dict are well-formed pairs: string keys, valid values
PairsOK(kids, n) ==
    /\ n <= Len(kids)
    /\ \A j \in 1..n : IF j % 2 = 1 THEN IsStringTree(kids[j]) ELSE Valid(kids[j])

\* The position of the first key that is not greater than the key before it
\* (0: there is none)
KeyNotGreater(kids, j) ==
    /\ j % 2 = 1 /\ j >= 3
    /\ IsStringTree(kids[j]) /\ IsStringTree(kids[j - 2])
    /\ BytesLeq(Content(kids[j]), Content(kids[j - 2]))
FirstBadKey(kids) == LeastOr({j \in 1..Len(kids) : KeyNotGreater(kids, j)}, 0)

\* The source holds the dict's 'd' and its first n items whole
HoldsItems(o, n) == o.cut >= 1 + Len(EncAll(SubSeq(o.trees[1].kids, 1, n)))

\* The dict's first wrong key, its pairs well-formed up to that key's value
OutOfOrderAt(j) ==
    /\ StartsWithDict(origin)
    /\ j = FirstBadKey(DictKids) /\ j # 0
    /\ PairsOK(DictKids, j + 1)
    /\ HoldsItems(origin, j + 1)

\* C11: a key equal to or smaller than the key before it makes next_value
\* return KeysOutOfOrder carrying that key (the first key is unconstrained),
\* and every dict returned had strictly increasing keys on the wire, each of
\* its pairs kept.
C11_KeysStrictlyIncreasing ==
    (StartsWithDict(origin) /\ Len(results) >= 1) =>
        /\ \A j \in 1..Len(DictKids) : OutOfOrderAt(j) =>
                /\ results[1].k = "Err"
                /\ results[1].v.e = "KeysOutOfOrder"
                /\ Utf8(results[1].v.key) = Content(DictKids[j])
        /\ (results[1].k = "Ok" /\ origin.cut >= Len(Enc(origin.trees[1]))) =>
                /\ Valid(origin.trees[1])
                /\ results[1].v = ValueOf(origin.trees[1])
                /\ 2 * Cardinality(DOMAIN results[1].v.d) = Len(DictKids)

\* A key of ASCII bytes: the text an error carries for it is the key itself
AsciiKey(tree) == \A j \in 1..ContentLen(tree) : Content(tree)[j] < 128

\* C11 holds when the wrong key is ASCII and the pairs read so far fit the
\* parser's buffers: it fails only through the lossy text of the key, and
\* through C8 and C4
C11_WithinLimits ==
    (StartsWithDict(origin) /\ Len(results) >= 1) =>
        /\ \A j \in 1..Len(DictKids) :
            (/\ OutOfOrderAt(j)
             /\ \A i \in 1..(j + 1) : WithinLimits(DictKids[i])
             /\ AsciiKey(DictKids[j])) =>
                results[1] = ErrResult(KeysOutOfOrder(Content(DictKids[j])))
        /\ (results[1].k = "Ok" /\ origin.cut >= Len(Enc(origin.trees[1]))) =>
                /\ Valid(origin.trees[1])
                /\ results[1].v = ValueOf(origin.trees[1])
                /\ 2 * Cardinality(DOMAIN results[1].v.d) = Len(DictKids)

C11_WithinLimits_Reached ==
    /\ OutOfOrderAt(3) /\ Len(results) >= 1
    /\ origin.trees[1] = D(<<S(<<122, 122, 122>>), S(<<119, 111, 114, 100, 115>>), S(<<97, 97, 97>>), I(<<55>>)>>)
    /\ results[1] = ErrResult(KeysOutOfOrder(<<97, 97, 97>>))

C11_ReturnedDictReached ==
    /\ StartsWithDict(origin) /\ Len(results) >= 1
    /\ Len(DictKids) = 4
    /\ results[1].k = "Ok"

\* The dict's last item is a key and the dict's 'e' follows it at once; the
\* pairs before it are well-formed and in order
ValueMissingAt(j) ==
    /\ StartsWithDict(origin)
    /\ j = Len(DictKids) /\ j % 2 = 1
    /\ IsStringTree(DictKids[j])
    /\ PairsOK(DictKids, j - 1)
    /\ FirstBadKey(SubSeq(DictKids, 1, j - 1)) = 0
    /\ origin.cut >= Len(Enc(origin.trees[1]))

\* C12: when the byte right after a key is the terminator 'e', next_value
\* returns MissingValueError carrying that key; no dict is returned.
C12_MissingValue ==
    (StartsWithDict(origin) /\ Len(results) >= 1) =>
        \A j \in 1..Len(DictKids) : ValueMissingAt(j) =>
            /\ results[1].k = "Err"
            /\ results[1].v.e = "MissingValueError"
            /\ Utf8(results[1].v.key) = Content(DictKids[j])

\* C12 holds when the key is ASCII and the items read so far fit the
\* parser's buffers: it fails only through the lossy text of the key, and
\* through C8 and C4
C12_WithinLimits ==
    (StartsWithDict(origin) /\ Len(results) >= 1) =>
        \A j \in 1..Len(DictKids) :
            (/\ ValueMissingAt(j)
             /\ \A i \in 1..j : WithinLimits(DictKids[i])
             /\ AsciiKey(DictKids[j])) =>
                results[1] = ErrResult(MissingValueError(Content(DictKids[j])))

C12_WithinLimits_Reached ==
    /\ ValueMissingAt(3) /\ Len(results) >= 1
    /\ origin.trees[1] = D(<<S(<<116, 119, 111>>), S(<<119, 111, 114, 100, 115>>), S(<<109, 105, 115, 115, 105, 110, 103>>)>>)
    /\ results[1] = ErrResult(MissingValueError(<<109, 105, 115, 115, 105, 110, 103>>))

\* The dict's item j is in key position, is read without error and is not a
\* string; the pairs before it are read without error
NonStringKeyAt(j) ==
    /\ StartsWithDict(origin)
    /\ j \in 1..Len(DictKids) /\ j % 2 = 1
    /\ ~IsStringTree(DictKids[j]) /\ Valid(DictKids[j])
    /\ PairsOK(DictKids, j - 1)
    /\ FirstBadKey(SubSeq(DictKids, 1, j - 1)) = 0
    /\ \A i \in 1..j : WithinLimits(DictKids[i])
    /\ HoldsItems(origin, j)

\* C13: in a dict, when the item in key position decodes successfully to a
\* value that is not a string, next_value returns KeyNotString carrying
\* exactly the decoded value.
C13_KeyNotString ==
    (StartsWithDict(origin) /\ Len(results) >= 1) =>
        \A j \in 1..Len(DictKids) : NonStringKeyAt(j) =>
            results[1] = ErrResult(KeyNotString(ValueOf(DictKids[j])))

C13_Witness ==
    /\ NonStringKeyAt(1) /\ Len(results) >= 1
    /\ origin.trees[1] = D(<<I(<<54, 54, 54>>), S(<<119, 111, 114, 100, 115>>), S(<<115, 101, 99, 111, 110, 100>>), I(<<52, 50>>)>>)
    /\ results[1] = ErrResult(KeyNotString(BEInteger(I64(FALSE, <<6, 6, 6>>))))

\* A list in key position, after a well-formed pair
C13_LaterKeyReached ==
    /\ NonStringKeyAt(3) /\ Len(results) >= 1
    /\ DictKids[3] = L(<<>>)
    /\ results[1] = ErrResult(KeyNotString(BEList(<<>>)))

-----------------------------------------------------------------------------
(* The typed adapter.  A u64 or i64 is kept as four 16-bit limbs, most     *)
(* significant first, an i64 in two's complement; the narrower integer     *)
(* types are kept widened to 64 bits, as the adapter widens them.          *)

Limb == 2^16
U64(n) == <<0, 0, n \div Limb, n % Limb>>
I64_MIN == <<Limb \div 2, 0, 0, 0>>
IsZero(x) == \A j \in 1..4 : x[j] = 0
IsNegative(x) == x[1] >= Limb \div 2
LimbsLeq(x, y) == x = y \/ \E j \in 1..4 : x[j] < y[j] /\ \A i \in 1..(j - 1) : x[i] = y[i]

\* The least n bits set
OnesLimbs(n) ==
    [j \in 1..4 |-> LET here == n - 16 * (4 - j)
                    IN  IF here <= 0 THEN 0 ELSE IF here >= 16 THEN Limb - 1 ELSE 2^here - 1]

\* x / 10 and x % 10
DivMod10(x) ==
    LET c1 == x[1]
        c2 == (c1 % 10) * Limb + x[2]
        c3 == (c2 % 10) * Limb + x[3]
        c4 == (c3 % 10) * Limb + x[4]
    IN  [q |-> <<c1 \div 10, c2 \div 10, c3 \div 10, c4 \div 10>>, r |-> c4 % 10]

\* x * 10 + d in 64 bits: the wrapped value, and whether it overflowed
MulAdd10(x, d) ==
    LET t4 == x[4] * 10 + d
        t3 == x[3] * 10 + t4 \div Limb
        t2 == x[2] * 10 + t3 \div Limb
        t1 == x[1] * 10 + t2 \div Limb
    IN  [v |-> <<t1 % Limb, t2 % Limb, t3 % Limb, t4 % Limb>>, overflow |-> t1 \div Limb # 0]

Invert(x) == [j \in 1..4 |-> Limb - 1 - x[j]]

\* -x in 64 bits, wrapping
Negate(x) ==
    LET y == Invert(x)
        t4 == y[4] + 1
        t3 == y[3] + t4 \div Limb
        t2 == y[2] + t3 \div Limb
        t1 == y[1] + t2 \div Limb
    IN  <<t1 % Limb, t2 % Limb, t3 % Limb, t4 % Limb>>

\* The small number a u64 holds, as usize (-1: larger than any slice here)
AsUsize(x) == IF x[1] = 0 /\ x[2] = 0 /\ x[3] < Limb \div 2 THEN x[3] * Limb + x[4] ELSE -1

\* The types the adapter is used with, and their values
IntT(signed, bits) == [k |-> "int", signed |-> signed, bits |-> bits, names |-> <<>>, sub |-> <<>>]
BoolT == [k |-> "bool", signed |-> FALSE, bits |-> 0, names |-> <<>>, sub |-> <<>>]
StrT == [k |-> "str", signed |-> FALSE, bits |-> 0, names |-> <<>>, sub |-> <<>>]
BytesT == [k |-> "bytes", signed |-> FALSE, bits |-> 0, names |-> <<>>, sub |-> <<>>]
VecT(elem) == [k |-> "seq", signed |-> FALSE, bits |-> 0, names |-> <<>>, sub |-> <<elem>>]
OptionT(of) == [k |-> "option", signed |-> FALSE, bits |-> 0, names |-> <<>>, sub |-> <<of>>]
StructT(names, types) == [k |-> "struct", signed |-> FALSE, bits |-> 0, names |-> names, sub |-> types]

IntV(limbs) == [k |-> "int", n |-> limbs, s |-> <<>>, kids |-> <<>>]
BoolV(b) == [k |-> "bool", n |-> <<IF b THEN 1 ELSE 0>>, s |-> <<>>, kids |-> <<>>]
StrV(bytes) == [k |-> "str", n |-> <<>>, s |-> bytes, kids |-> <<>>]
BytesV(bytes) == [k |-> "bytes", n |-> <<>>, s |-> bytes, kids |-> <<>>]
VecV(items) == [k |-> "seq", n |-> <<>>, s |-> <<>>, kids |-> items]
NoneV == [k |-> "none", n |-> <<>>, s |-> <<>>, kids |-> <<>>]
SomeV(v) == [k |-> "some", n |-> <<>>, s |-> <<>>, kids |-> <<v>>]
StructV(fields) == [k |-> "struct", n |-> <<>>, s |-> <<>>, kids |-> fields]

-----------------------------------------------------------------------------
(* The encode half (ser.rs).  A result pairs the serializer's bytes with   *)
(* the value returned.                                                     *)

\* write!(self.bytes, "{}", ch) of a char below U+0100: its UTF-8 bytes
WriteChar(bytes, ch) ==
    IF ch < 128 THEN Append(bytes, ch)
    ELSE bytes \o <<192 + (ch \div 64), 128 + (ch % 64)>>

\* The while loop of write_raw_int: the digits, least significant first
RECURSIVE RawDigits(_)
RawDigits(num) ==
    IF IsZero(num) THEN <<>>
    ELSE <<ZERO_CHAR + DivMod10(num).r>> \o RawDigits(DivMod10(num).q)

Reverse(q) == [j \in 1..Len(q) |-> q[Len(q) + 1 - j]]

write_raw_int(bytes, val) ==
    IF IsZero(val) THEN Ok(Append(bytes, ZERO_CHAR), <<>>)
    ELSE Ok(bytes \o Reverse(RawDigits(val)), <<>>)

serialize_u64(bytes, v) ==
    Try(write_raw_int(WriteChar(bytes, I_CHAR), v), LAMBDA r :
        Ok(WriteChar(r.c, E_CHAR), <<>>))

serialize_bool(bytes, v) == serialize_u64(bytes, IF v THEN U64(1) ELSE U64(0))

\* v.abs(): overflows for i64::MIN, which panics when the build checks
\* overflow and wraps to i64::MIN when it does not
I64Abs(bytes, v) ==
    IF ~IsNegative(v) THEN Ok(bytes, v)
    ELSE IF v = I64_MIN
         THEN (IF job.overflow_checks THEN Panic(bytes) ELSE Ok(bytes, v))
    ELSE Ok(bytes, Negate(v))

serialize_i64(bytes, v) ==
    Try(I64Abs(bytes, v), LAMBDA abs_val :
    Try(write_raw_int(IF IsNegative(v)
                      THEN WriteChar(WriteChar(abs_val.c, I_CHAR), MINUS_SIGN)
                      ELSE WriteChar(abs_val.c, I_CHAR), abs_val.v), LAMBDA r :
        Ok(WriteChar(r.c, E_CHAR), <<>>)))

\* The for loop of serialize_str
RECURSIVE WriteBytesAsChars(_, _)
WriteBytesAsChars(bytes, v) ==
    IF Len(v) = 0 THEN bytes
    ELSE WriteBytesAsChars(WriteChar(bytes, v[1]), Tail(v))

serialize_str(bytes, v) ==
    Try(write_raw_int(bytes, U64(Len(v))), LAMBDA r :
        Ok(WriteBytesAsChars(WriteChar(r.c, COLON_CHAR), v), <<>>))

\* todo!()
serialize_bytes(bytes, v) == Panic(bytes)

serialize_none(bytes) == Ok(bytes, <<>>)

\* todo!()
serialize_some(bytes, value) == Panic(bytes)

serialize_seq(bytes) == Ok(WriteChar(bytes, L_CHAR), <<>>)

SerializeSeq_end(bytes) == Ok(WriteChar(bytes, E_CHAR), <<>>)

RECURSIVE serialize(_, _, _)

to_bytes(T, value) == Try(serialize(T, value, <<>>), LAMBDA r : Ok(r.c, r.c))

serialize_element(bytes, T, value) == serialize(T, value, bytes)

\* Serializer::collect_seq: serialize_seq, each element, end
RECURSIVE ElementLoop(_, _, _)
ElementLoop(bytes, T, items) ==
    IF Len(items) = 0 THEN SerializeSeq_end(bytes)
    ELSE Try(serialize_element(bytes, T, items[1]), LAMBDA r :
             ElementLoop(r.c, T, Tail(items)))

collect_seq(bytes, T, items) ==
    Try(serialize_seq(bytes), LAMBDA r : ElementLoop(r.c, T, items))

\* SerializeStruct: the fields buffered so far and the serializer's bytes
SerializeStruct_new(bytes) == [fields |-> <<>>, bytes |-> bytes]

serialize_struct(bytes) == Ok(SerializeStruct_new(bytes), <<>>)

serialize_field(state, key, T, value) ==
    LET bytes == to_bytes(T, value)
    IN  IF bytes.k # "Ok" THEN [bytes EXCEPT !.c = state]
        ELSE Ok([state EXCEPT !.fields = DictInsert(state.fields, key, bytes.v)], <<>>)

\* key_vec.sort(): the keys in ascending byte order
RECURSIVE SortKeys(_)
SortKeys(keys) ==
    IF keys = {} THEN <<>>
    ELSE LET least == CHOOSE a \in keys : \A b \in keys : BytesLeq(a, b)
         IN  <<least>> \o SortKeys(keys \ {least})

\* The for loop of SerializeStruct::end
RECURSIVE WriteFields(_, _, _)
WriteFields(bytes, fields, key_vec) ==
    IF Len(key_vec) = 0 THEN Ok(WriteChar(bytes, E_CHAR), <<>>)
    ELSE IF Len(fields[key_vec[1]]) = 0 THEN WriteFields(bytes, fields, Tail(key_vec))
    ELSE Try(serialize_str(bytes, key_vec[1]), LAMBDA r :
             WriteFields(r.c \o fields[key_vec[1]], fields, Tail(key_vec)))

SerializeStruct_end(state) ==
    WriteFields(WriteChar(state.bytes, D_CHAR), state.fields, SortKeys(DOMAIN state.fields))

\* The derived Serialize of a struct: serialize_struct, serialize_field for
\* each field in declaration order, end
RECURSIVE FieldLoop(_, _, _, _)
FieldLoop(state, T, value, j) ==
    IF j > Len(T.names) THEN SerializeStruct_end(state)
    ELSE Try(serialize_field(state, T.names[j], T.sub[j], value.kids[j]), LAMBDA r :
             FieldLoop(r.c, T, value, j + 1))

\* Serialize::serialize of each type, on a serializer holding bytes
serialize(T, value, bytes) ==
    IF T.k = "int" THEN (IF T.signed THEN serialize_i64(bytes, value.n)
                         ELSE serialize_u64(bytes, value.n))
    ELSE IF T.k = "bool" THEN serialize_bool(bytes, value.n = <<1>>)
    ELSE IF T.k = "str" THEN serialize_str(bytes, value.s)
    ELSE IF T.k = "bytes"
         THEN collect_seq(bytes, IntT(FALSE, 8), [j \in 1..Len(value.s) |-> IntV(U64(value.s[j]))])
    ELSE IF T.k = "seq" THEN collect_seq(bytes, T.sub[1], value.kids)
    ELSE IF T.k = "option"
         THEN (IF value.k = "none" THEN serialize_none(bytes)
               ELSE serialize_some(bytes, value.kids[1]))
    ELSE Try(serialize_struct(bytes), LAMBDA r : FieldLoop(r.c, T, value, 1))

-----------------------------------------------------------------------------
(* The decode half (serbe/de.rs).  The deserializer is the slice of bytes  *)
(* not yet consumed; a result pairs it with the value returned.            *)

Message(msg) == [e |-> "Message", msg |-> msg]
Eof == [e |-> "Eof"]
ExpectedList == [e |-> "ExpectedList"]
ExpectedListEnd == [e |-> "ExpectedListEnd"]
ExpectedNumEnd == [e |-> "ExpectedNumEnd"]
ExpectedMap == [e |-> "ExpectedMap"]
ExpectedMapEnd == [e |-> "ExpectedMapEnd"]
MissingColon(found) == [e |-> "MissingColon", found |-> found]
TrailingInput == [e |-> "TrailingInput"]
UnrecognizedPrefix(found) == [e |-> "UnrecognizedPrefix", found |-> found]
UnexpectedPrefix(found, expected) ==
    [e |-> "UnexpectedPrefix", found |-> found, expected |-> expected]
UnexpectedSigned == [e |-> "UnexpectedSigned"]
Utf8Error == [e |-> "Utf8Error"]

peek_byte(c) == IF Len(c) = 0 THEN Err(c, Eof) ELSE Ok(c, c[1])

next_byte(c) == Try(peek_byte(c), LAMBDA byte : Ok(Tail(c), byte.v))

\* The loop of parse_raw_integer; val * 10 + digit overflows a u64 with a
\* panic when the build checks overflow and wraps when it does not
RECURSIVE RawIntegerLoop(_, _)
RawIntegerLoop(c, val) ==
    Try(peek_byte(c), LAMBDA b :
        IF ~is_ascii_digit(b.v) THEN Ok(c, val)
        ELSE IF MulAdd10(val, b.v - ZERO_CHAR).overflow /\ job.overflow_checks
             THEN Panic(c)
        ELSE RawIntegerLoop(Tail(c), MulAdd10(val, b.v - ZERO_CHAR).v))

parse_raw_integer(c) == RawIntegerLoop(c, U64(0))

\* &self.bytes[..length] panics when fewer than length bytes are left
parse_bytes(c) ==
    Try(parse_raw_integer(c), LAMBDA length :
    Try(next_byte(length.c), LAMBDA colon :
        IF colon.v # COLON_CHAR THEN Err(colon.c, MissingColon(colon.v))
        ELSE IF AsUsize(length.v) = -1 \/ AsUsize(length.v) > Len(colon.c)
             THEN Panic(colon.c)
        ELSE Ok(SubSeq(colon.c, AsUsize(length.v) + 1, Len(colon.c)),
                SubSeq(colon.c, 1, AsUsize(length.v)))))

\* std::str::from_utf8 accepts the bytes
IsContinuation(b) == b \in 128..191
RECURSIVE IsUtf8(_)
IsUtf8(b) ==
    IF Len(b) = 0 THEN TRUE
    ELSE IF b[1] < 128 THEN IsUtf8(Tail(b))
    ELSE IF b[1] \in 194..223
         THEN Len(b) >= 2 /\ IsContinuation(b[2]) /\ IsUtf8(SubSeq(b, 3, Len(b)))
    ELSE IF b[1] \in 224..239
         THEN /\ Len(b) >= 3
              /\ b[2] \in (IF b[1] = 224 THEN 160..191 ELSE IF b[1] = 237 THEN 128..159 ELSE 128..191)
              /\ IsContinuation(b[3])
              /\ IsUtf8(SubSeq(b, 4, Len(b)))
    ELSE IF b[1] \in 240..244
         THEN /\ Len(b) >= 4
              /\ b[2] \in (IF b[1] = 240 THEN 144..191 ELSE IF b[1] = 244 THEN 128..143 ELSE 128..191)
              /\ IsContinuation(b[3]) /\ IsContinuation(b[4])
              /\ IsUtf8(SubSeq(b, 5, Len(b)))
    ELSE FALSE

parse_str(c) ==
    Try(parse_bytes(c), LAMBDA bytes :
        IF IsUtf8(bytes.v) THEN bytes ELSE Err(bytes.c, Utf8Error))

parse_unsigned(c) ==
    Try(peek_byte(c), LAMBDA p :
        IF p.v = MINUS_SIGN THEN Err(c, UnexpectedSigned)
        ELSE
    Try(next_byte(c), LAMBDA b :
        IF b.v # I_CHAR THEN Err(b.c, UnexpectedPrefix(b.v, I_CHAR))
        ELSE
    Try(parse_raw_integer(b.c), LAMBDA val :
    Try(next_byte(val.c), LAMBDA e :
        IF e.v # E_CHAR THEN Err(e.c, ExpectedNumEnd)
        ELSE Ok(e.c, val.v)))))

\* multiplier * uval as i64: -1 * i64::MIN overflows
SignedProduct(c, minus, uval) ==
    IF ~minus THEN Ok(c, uval)
    ELSE IF uval = I64_MIN
         THEN (IF job.overflow_checks THEN Panic(c) ELSE Ok(c, uval))
    ELSE Ok(c, Negate(uval))

parse_signed(c) ==
    Try(next_byte(c), LAMBDA b :
        IF b.v # I_CHAR THEN Err(b.c, UnexpectedPrefix(b.v, I_CHAR))
        ELSE
    Try(peek_byte(b.c), LAMBDA sign :
    Try(parse_raw_integer(IF sign.v = MINUS_SIGN THEN Tail(b.c) ELSE b.c), LAMBDA uval :
    Try(next_byte(uval.c), LAMBDA e :
        IF e.v # E_CHAR THEN Err(e.c, ExpectedNumEnd)
        ELSE SignedProduct(e.c, sign.v = MINUS_SIGN, uval.v)))))

\* What deserialize_ignored_any is asked for: serde's IgnoredAny
IgnoredT == [k |-> "ignored", signed |-> FALSE, bits |-> 0, names |-> <<>>, sub |-> <<>>]
IgnoredV == [k |-> "ignored", n |-> <<>>, s |-> <<>>, kids |-> <<>>]

\* The visitors serde passes to deserialize_any: the visitor of an integer
\* type keeps a value the type can hold and refuses any other with a custom
\* error; IgnoredAny's visitor takes every value
MaxOf(T) == OnesLimbs(IF T.signed THEN T.bits - 1 ELSE T.bits)

visit_i64(T, c, v) ==
    IF T.k = "ignored" THEN Ok(c, IgnoredV)
    ELSE IF IsNegative(v)
         THEN (IF T.signed /\ LimbsLeq(Invert(v), MaxOf(T)) THEN Ok(c, IntV(v))
               ELSE Err(c, Message("invalid value")))
    ELSE IF LimbsLeq(v, MaxOf(T)) THEN Ok(c, IntV(v))
    ELSE Err(c, Message("invalid value"))

visit_u64(T, c, v) ==
    IF T.k = "ignored" THEN Ok(c, IgnoredV)
    ELSE IF LimbsLeq(v, MaxOf(T)) THEN Ok(c, IntV(v))
    ELSE Err(c, Message("invalid value"))

\* self.bytes[1] panics on a slice of one byte
deserialize_any(c, T) ==
    Try(peek_byte(c), LAMBDA p :
        IF p.v = I_CHAR
        THEN (IF Len(c) < 2 THEN Panic(c)
              ELSE IF c[2] = MINUS_SIGN
                   THEN Try(parse_signed(c), LAMBDA r : visit_i64(T, r.c, r.v))
              ELSE Try(parse_unsigned(c), LAMBDA r : visit_u64(T, r.c, r.v)))
        ELSE Err(c, UnrecognizedPrefix(p.v)))

\* A deserialize_bool that reads a signed integer
deserialize_bool_Signed(c) ==
    Try(parse_signed(c), LAMBDA r : Ok(r.c, BoolV(~IsZero(r.v))))

deserialize_bool(c) ==
    Try(parse_unsigned(c), LAMBDA r : Ok(r.c, BoolV(~IsZero(r.v))))

deserialize_str(c) == Try(parse_str(c), LAMBDA r : Ok(r.c, StrV(r.v)))

deserialize_bytes(c) == Try(parse_bytes(c), LAMBDA r : Ok(r.c, BytesV(r.v)))

\* todo!()
deserialize_option(c) == Panic(c)

deserialize_identifier(c) == deserialize_str(c)

deserialize_ignored_any(c) == deserialize_any(c, IgnoredT)

RECURSIVE deserialize(_, _)

\* List::next_element_seed: <<>> is None
next_element_seed(c, T) ==
    Try(peek_byte(c), LAMBDA p :
        IF p.v = E_CHAR THEN Ok(c, <<>>)
        ELSE Try(deserialize(T, c), LAMBDA r : Ok(r.c, <<r.v>>)))

\* The visitor of Vec<T>: next_element until None
RECURSIVE visit_seq(_, _, _)
visit_seq(c, T, values) ==
    Try(next_element_seed(c, T), LAMBDA element :
        IF Len(element.v) = 0 THEN Ok(element.c, VecV(values))
        ELSE visit_seq(element.c, T, Append(values, element.v[1])))

deserialize_seq(c, T) ==
    Try(next_byte(c), LAMBDA b :
        IF b.v # L_CHAR THEN Err(b.c, ExpectedList)
        ELSE
    Try(visit_seq(b.c, T.sub[1], <<>>), LAMBDA value :
    Try(next_byte(value.c), LAMBDA e :
        IF e.v # E_CHAR THEN Err(e.c, ExpectedListEnd)
        ELSE Ok(e.c, value.v))))

\* The field a key names: its position in the struct, 0 for no field
FieldIndex(T, name) == LeastOr({j \in 1..Len(T.names) : T.names[j] = name}, 0)

\* Map::next_key_seed with the derived field identifier: <<>> is None
next_key_seed(c, T) ==
    Try(peek_byte(c), LAMBDA p :
        IF p.v = E_CHAR THEN Ok(c, <<>>)
        ELSE Try(deserialize_identifier(c), LAMBDA r :
                 Ok(r.c, <<FieldIndex(T, r.v.s)>>)))

next_value_seed(c, T) == deserialize(T, c)

\* A field whose key never came: None for an Option, an error for any other
MissingFields(T, slots) ==
    {j \in 1..Len(T.names) : Len(slots[j]) = 0 /\ T.sub[j].k # "option"}

FieldsBuilt(c, T, slots) ==
    IF MissingFields(T, slots) # {} THEN Err(c, Message("missing field"))
    ELSE Ok(c, StructV([j \in 1..Len(T.names) |->
                            IF Len(slots[j]) = 0 THEN NoneV ELSE slots[j][1]]))

\* The derived visitor of a struct: next_key until None, each value read as
\* its field's type, an unknown key's value read as IgnoredAny
RECURSIVE visit_map(_, _, _)
visit_map(c, T, slots) ==
    Try(next_key_seed(c, T), LAMBDA key :
        IF Len(key.v) = 0 THEN FieldsBuilt(key.c, T, slots)
        ELSE IF key.v[1] = 0
             THEN Try(next_value_seed(key.c, IgnoredT), LAMBDA r :
                      visit_map(r.c, T, slots))
        ELSE IF Len(slots[key.v[1]]) # 0 THEN Err(key.c, Message("duplicate field"))
        ELSE Try(next_value_seed(key.c, T.sub[key.v[1]]), LAMBDA r :
                 visit_map(r.c, T, [slots EXCEPT ![key.v[1]] = <<r.v>>])))

deserialize_map(c, T) ==
    Try(next_byte(c), LAMBDA b :
        IF b.v # D_CHAR THEN Err(b.c, ExpectedMap)
        ELSE
    Try(visit_map(b.c, T, [j \in 1..Len(T.names) |-> <<>>]), LAMBDA value :
    Try(next_byte(value.c), LAMBDA e :
        IF e.v # E_CHAR THEN Err(e.c, ExpectedMapEnd)
        ELSE Ok(e.c, value.v))))

deserialize_struct(c, T) == deserialize_map(c, T)

\* Deserialize::deserialize of each type
deserialize(T, c) ==
    IF T.k = "int" THEN deserialize_any(c, T)
    ELSE IF T.k = "bool" THEN deserialize_bool(c)
    ELSE IF T.k = "str" THEN deserialize_str(c)
    ELSE IF T.k = "bytes" THEN deserialize_bytes(c)
    ELSE IF T.k = "seq" THEN deserialize_seq(c, T)
    ELSE IF T.k = "option" THEN deserialize_option(c)
    ELSE IF T.k = "struct" THEN deserialize_struct(c, T)
    ELSE deserialize_ignored_any(c)

\* A from_bytes that returns the value whatever is left of the input
from_bytes_IgnoresRest(T, bytes) ==
    Try(deserialize(T, bytes), LAMBDA t : Ok(t.c, t.v))

from_bytes(T, bytes) ==
    Try(deserialize(T, bytes), LAMBDA t :
        IF Len(t.c) = 0 THEN Ok(t.c, t.v) ELSE Err(t.c, TrailingInput))

-----------------------------------------------------------------------------
(* The adapter's inputs: typed values to encode and then decode, and bytes *)
(* to decode as a type.                                                    *)

IntTypes == {IntT(sg, bits) : sg \in BOOLEAN, bits \in {8, 16, 32, 64}}

\* The structs of the tests (serbe/mod.rs), and structs that nest, that hold
\* a byte slice, and whose fields are declared out of order
TestStruct == StructT(<<<<105, 110, 116, 101, 105, 103, 104, 116>>, <<115>>>>, <<IntT(TRUE, 8), StrT>>)
TestWithOption == StructT(<<<<105>>, <<115>>>>, <<OptionT(IntT(FALSE, 8)), OptionT(StrT)>>)
Unsorted == StructT(<<<<98>>, <<97, 98>>, <<97>>, <<90>>>>, <<IntT(FALSE, 8), BoolT, StrT, IntT(TRUE, 16)>>)
Inner == StructT(<<<<121>>, <<120>>>>, <<IntT(FALSE, 8), OptionT(BoolT)>>)
Nested == StructT(<<<<122>>, <<105, 110, 110, 101, 114>>, <<97>>>>, <<IntT(FALSE, 8), Inner, OptionT(BoolT)>>)
TorrentInfo == StructT(<<<<112, 105, 101, 99, 101, 115>>>>, <<BytesT>>)
\* (a field named U+00E9)
Renamed == StructT(<<<<195, 169>>>>, <<IntT(FALSE, 8)>>)
StructTypes == {TestStruct, TestWithOption, Unsorted, Inner, Nested, TorrentInfo, Renamed}

Types ==
    IntTypes \cup StructTypes
    \cup {BoolT, StrT, BytesT, VecT(IntT(FALSE, 32)), VecT(StrT), VecT(VecT(IntT(FALSE, 8))),
          OptionT(IntT(FALSE, 8))}

\* The least value of a signed type
MinOf(T) == Invert(MaxOf(T))

IntValues(T) ==
    {IntV(x) : x \in {U64(0), U64(1), U64(10), U64(33), U64(127), MaxOf(T)}
                     \cup (IF T.signed THEN {Negate(U64(1)), Negate(U64(55)), MinOf(T)}
                           ELSE {U64(128), U64(255)})}

StrValues ==
    {StrV(text) : text \in SeqsUpTo({97, COLON_CHAR}, MaxLen - 1)
                           \cup {<<121, 97, 114, 110>>, <<195, 169>>, <<97, 195, 169>>, <<226, 130, 172>>}}

\* A few values of each type, and the tuples of a struct's fields from j on
RECURSIVE Small(_), FieldTuples(_, _)
Small(T) ==
    IF T.k = "int"
    THEN {IntV(U64(0)), IntV(U64(33))} \cup (IF T.signed THEN {IntV(Negate(U64(1)))} ELSE {})
    ELSE IF T.k = "bool" THEN {BoolV(TRUE), BoolV(FALSE)}
    ELSE IF T.k = "str" THEN {StrV(<<>>), StrV(<<119, 111, 114, 100>>)}
    ELSE IF T.k = "bytes" THEN {BytesV(<<>>), BytesV(<<0, 255>>)}
    ELSE IF T.k = "seq" THEN {VecV(<<>>)} \cup {VecV(<<v>>) : v \in Small(T.sub[1])}
    ELSE IF T.k = "option" THEN {NoneV} \cup {SomeV(v) : v \in Small(T.sub[1])}
    ELSE {StructV(fields) : fields \in FieldTuples(T, 1)}
FieldTuples(T, j) ==
    IF j > Len(T.names) THEN {<<>>}
    ELSE {<<v>> \o rest : v \in Small(T.sub[j]), rest \in FieldTuples(T, j + 1)}

ValuesOf(T) ==
    IF T.k = "int" THEN IntValues(T)
    ELSE IF T.k = "str" THEN StrValues
    ELSE IF T.k = "seq" THEN {VecV(items) : items \in SeqsUpTo(Small(T.sub[1]), MaxVals)}
    ELSE Small(T)

\* The inputs of the tests of serbe/mod.rs
AdapterTestTrees == {
    I(<<48>>),
    I(<<49>>),
    I(<<51, 50>>),
    I(<<53>>),
    I(<<53, 53>>),
    I(<<49, 50, 51, 52, 53, 54, 55, 56, 57, 48>>),
    I(<<45, 53, 53>>),
    I(<<45, 49, 50, 51, 52, 53, 54, 55, 56, 57, 48>>),
    I(<<45, 55>>),
    S(<<121, 97, 114, 110>>),
    S(<<>>),
    L(<<I(<<49>>), I(<<48>>), I(<<51, 50>>), I(<<52, 53>>), I(<<48>>), I(<<52>>)>>),
    L(<<>>),
    L(<<S(<<102, 111, 111>>), S(<<102, 111, 111, 98, 97, 114>>), S(<<113, 117, 117, 120>>)>>),
    D(<<S(<<105, 110, 116, 101, 105, 103, 104, 116>>), I(<<51, 51>>), S(<<115>>), S(<<119, 111, 114, 100>>)>>),
    D(<<S(<<102, 97, 107, 101>>), I(<<48>>), S(<<105, 110, 116, 101, 105, 103, 104, 116>>), I(<<51, 51>>), S(<<115>>), S(<<119, 111, 114, 100>>)>>),
    D(<<>>),
    D(<<S(<<105>>), I(<<56>>)>>),
    D(<<S(<<115>>), S(<<102, 108, 111, 112, 112, 121>>)>>),
    D(<<S(<<105>>), I(<<51, 52>>), S(<<115>>), S(<<102, 108, 111, 112, 112, 121>>)>>) }

\* Integers at the edges of 64 bits and off the canonical form, and dicts
\* with keys out of order, repeated, missing or unknown
AdapterEdgeTrees == {
    I(<<45, 48>>),
    I(<<49, 56, 52, 52, 54, 55, 52, 52, 48, 55, 51, 55, 48, 57, 53, 53, 49, 54, 49, 53>>),
    I(<<49, 56, 52, 52, 54, 55, 52, 52, 48, 55, 51, 55, 48, 57, 53, 53, 49, 54, 49, 54>>),
    I(<<57, 50, 50, 51, 51, 55, 50, 48, 51, 54, 56, 53, 52, 55, 55, 53, 56, 48, 56>>),
    I(<<45, 57, 50, 50, 51, 51, 55, 50, 48, 51, 54, 56, 53, 52, 55, 55, 53, 56, 48, 56>>),
    I(<<45, 57, 50, 50, 51, 51, 55, 50, 48, 51, 54, 56, 53, 52, 55, 55, 53, 56, 48, 57>>),
    I(<<48, 48, 55>>),
    I(<<48, 51, 50>>),
    I(<<>>),
    D(<<S(<<115>>), S(<<119, 111, 114, 100>>), S(<<105, 110, 116, 101, 105, 103, 104, 116>>), I(<<51, 51>>)>>),
    D(<<S(<<105, 110, 116, 101, 105, 103, 104, 116>>), I(<<51, 51>>), S(<<105, 110, 116, 101, 105, 103, 104, 116>>), I(<<51, 51>>), S(<<115>>), S(<<119, 111, 114, 100>>)>>),
    D(<<S(<<105, 110, 116, 101, 105, 103, 104, 116>>), I(<<51, 51>>)>>),
    D(<<S(<<102, 97, 107, 101>>), S(<<120>>), S(<<105, 110, 116, 101, 105, 103, 104, 116>>), I(<<51, 51>>), S(<<115>>), S(<<119, 111, 114, 100>>)>>),
    D(<<S(<<102, 97, 107, 101>>), L(<<>>), S(<<105, 110, 116, 101, 105, 103, 104, 116>>), I(<<51, 51>>), S(<<115>>), S(<<119, 111, 114, 100>>)>>),
    D(<<S(<<102, 97, 107, 101>>), D(<<>>), S(<<105, 110, 116, 101, 105, 103, 104, 116>>), I(<<51, 51>>), S(<<115>>), S(<<119, 111, 114, 100>>)>>),
    D(<<S(<<105, 110, 116, 101, 105, 103, 104, 116>>), I(<<51, 51>>), S(<<115>>), S(<<119, 111, 114, 100>>), S(<<122>>), I(<<45, 55>>)>>),
    S(<<195, 169>>),
    I(<<45, 49>>),
    I(<<49, 50, 55>>), I(<<49, 50, 56>>), I(<<50, 53, 53>>), I(<<50, 53, 54>>),
    I(<<45, 49, 50, 56>>), I(<<45, 49, 50, 57>>),
    I(<<54, 53, 53, 51, 54>>), I(<<52, 50, 57, 52, 57, 54, 55, 50, 57, 54>>),
    I(<<57, 50, 50, 51, 51, 55, 50, 48, 51, 54, 56, 53, 52, 55, 55, 53, 56, 48, 55>>),
    I(Digits(25, 49)) }

\* Encodings cut short: every proper prefix of an integer, a string, two
\* lists and a record of the tests
TruncTrees == {
    I(<<53, 53>>),
    S(<<121, 97, 114, 110>>),
    L(<<I(<<49>>), I(<<48>>), I(<<51, 50>>), I(<<52, 53>>), I(<<48>>), I(<<52>>)>>),
    L(<<S(<<102, 111, 111>>), S(<<102, 111, 111, 98, 97, 114>>), S(<<113, 117, 117, 120>>)>>),
    D(<<S(<<105, 110, 116, 101, 105, 103, 104, 116>>), I(<<51, 51>>), S(<<115>>), S(<<119, 111, 114, 100>>)>>) }
TruncatedInputs ==
    UNION {{SubSeq(Enc(tree), 1, n) : n \in 1..(Len(Enc(tree)) - 1)} : tree \in TruncTrees}

DecodeInputs ==
    {Enc(tree) \o tail :
        tree \in TreesUpTo(2) \cup AdapterTestTrees \cup AdapterEdgeTrees,
        tail \in {<<>>, <<E_CHAR>>, <<ZERO_CHAR>>, <<I_CHAR>>}}
    \cup SeqsUpTo(RawBytes, 2)
    \cup TruncatedInputs

EncodeJob(T, value, checks) ==
    [mode |-> "encode", T |-> T, value |-> value, input |-> <<>>, overflow_checks |-> checks]
DecodeJob(T, input, checks) ==
    [mode |-> "decode", T |-> T, value |-> NoneV, input |-> input, overflow_checks |-> checks]

Jobs ==
    UNION {{EncodeJob(T, v, ch) : v \in ValuesOf(T), ch \in BOOLEAN} : T \in Types}
    \cup {DecodeJob(T, input, ch) : T \in Types, input \in DecodeInputs, ch \in BOOLEAN}

-----------------------------------------------------------------------------
(* The adapter's state machine: to_bytes on the job's value and from_bytes *)
(* on what it returned, or from_bytes on the job's bytes.                  *)

TypedInit ==
    /\ job \in Jobs
    /\ encoded = <<>>
    /\ decoded = <<>>
    /\ origin = Origin(<<>>, 0, <<>>)
    /\ src = SourceOf(origin)
    /\ chars = NewChars
    /\ results = <<>>
    /\ aborted = FALSE

\* What the caller holds of a result
Returns(r) == <<[k |-> r.k, v |-> r.v]>>

ToBytes ==
    /\ job.mode = "encode"
    /\ encoded = <<>>
    /\ encoded' = Returns(to_bytes(job.T, job.value))
    /\ UNCHANGED <<origin, src, chars, results, aborted, job, decoded>>

\* The bytes from_bytes is called on
Input ==
    IF job.mode = "decode" THEN job.input ELSE encoded[1].v

FromBytes ==
    /\ decoded = <<>>
    /\ job.mode = "encode" => (encoded # <<>> /\ encoded[1].k = "Ok")
    /\ decoded' = Returns(from_bytes(job.T, Input))
    /\ UNCHANGED <<origin, src, chars, results, aborted, job, encoded>>

TypedNext == ToBytes \/ FromBytes

TypedSpec == TypedInit /\ [][TypedNext]_vars

-----------------------------------------------------------------------------
(* What the adapter's caller observes.                                     *)

Encoding == job.mode = "encode" /\ encoded # <<>>
RoundTripped == job.mode = "encode" /\ decoded # <<>>
DecodeCase(T, tree) ==
    job.mode = "decode" /\ job.T = T /\ job.input = Enc(tree) /\ decoded # <<>>

\* C15: the typed adapter round-trips: for every supported type T (integers
\* of each width, bool, UTF-8 strings, byte strings, sequences, records with
\* required and optional fields) and every value v of T, to_bytes(&v)
\* succeeds and from_bytes::<T>(to_bytes(&v)) equals v.
C15_RoundTrip ==
    /\ Encoding => encoded[1].k = "Ok"
    /\ RoundTripped => decoded[1] = OkResult(job.value)

\* The values that do round-trip: integers (i64::MIN only in a build that
\* does not check overflow), bools, ASCII strings, sequences of these, and
\* records of these whose optional fields are None
IsAscii(bytes) == \A j \in 1..Len(bytes) : bytes[j] < 128
RECURSIVE Plain(_, _)
Plain(T, v) ==
    IF T.k = "int" THEN ~(T.signed /\ v.n = I64_MIN /\ job.overflow_checks)
    ELSE IF T.k = "bool" THEN TRUE
    ELSE IF T.k = "str" THEN IsAscii(v.s)
    ELSE IF T.k = "seq" THEN \A j \in 1..Len(v.kids) : Plain(T.sub[1], v.kids[j])
    ELSE IF T.k = "struct"
         THEN /\ \A j \in 1..Len(T.names) : IsAscii(T.names[j])
              /\ \A j \in 1..Len(T.names) :
                    IF T.sub[j].k = "option" THEN v.kids[j].k = "none"
                    ELSE Plain(T.sub[j], v.kids[j])
    ELSE FALSE

\* C15 holds for those values: it fails through serialize_some,
\* deserialize_option, serialize_str, the encoding of byte slices and
\* the abs of serialize_i64
C15_PlainValues ==
    /\ (Encoding /\ Plain(job.T, job.value)) => encoded[1].k = "Ok"
    /\ (RoundTripped /\ Plain(job.T, job.value)) => decoded[1] = OkResult(job.value)

C15_PlainValues_Reached ==
    /\ RoundTripped
    /\ job.T = Nested
    /\ job.value = StructV(<<IntV(U64(33)), StructV(<<IntV(U64(0)), NoneV>>), NoneV>>)
    /\ decoded[1] = OkResult(job.value)

C15_MinI64Reached ==
    /\ RoundTripped
    /\ job.T = IntT(TRUE, 64) /\ job.value = IntV(I64_MIN) /\ ~job.overflow_checks
    /\ decoded[1] = OkResult(job.value)

\* The encoding of a key
KeyBytes(name) == DecBytes(Len(name)) \o <<COLON_CHAR>> \o name

\* The fields of a struct in ascending byte order of their names
Rank(T, j) ==
    1 + Cardinality({i \in 1..Len(T.names) : ~BytesLeq(T.names[j], T.names[i])})
ByName(T) == [r \in 1..Len(T.names) |-> CHOOSE j \in 1..Len(T.names) : Rank(T, j) = r]

\* The bytes of a record: 'd', the pairs of its fields that hold a value in
\* the given order, 'e'; a record in a field has its fields by name
RECURSIVE Expected(_, _), JoinPairs(_, _, _)
Expected(T, v) ==
    IF T.k = "struct" THEN <<D_CHAR>> \o JoinPairs(T, v, ByName(T)) \o <<E_CHAR>>
    ELSE IF T.k = "option"
         THEN (IF v.k = "none" THEN <<>> ELSE Expected(T.sub[1], v.kids[1]))
    ELSE to_bytes(T, v).v
JoinPairs(T, v, order) ==
    IF Len(order) = 0 THEN <<>>
    ELSE (IF v.kids[order[1]].k = "none" THEN <<>>
          ELSE KeyBytes(T.names[order[1]]) \o Expected(T.sub[order[1]], v.kids[order[1]]))
         \o JoinPairs(T, v, Tail(order))

EncodingRecord == Encoding /\ job.T.k = "struct"

\* C16: encoding a record writes 'd', its fields as <key><value> pairs in
\* ascending byte order of field name whatever the declaration order, and
\* 'e', at every nesting level.
C16_FieldsSorted ==
    EncodingRecord => encoded[1] = OkResult(Expected(job.T, job.value))

\* C16 holds for the records whose field names are ASCII and whose optional
\* fields are None: it fails only through serialize_some (C17) and
\* serialize_str (C15)
C16_PlainRecords ==
    (EncodingRecord /\ Plain(job.T, job.value)) =>
        encoded[1] = OkResult(Expected(job.T, job.value))

C16_PlainRecords_Reached ==
    /\ EncodingRecord
    /\ job.T = TestStruct
    /\ job.value = StructV(<<IntV(U64(33)), StrV(<<119, 111, 114, 100>>)>>)
    /\ encoded[1] = OkResult(Enc(D(<<S(<<105, 110, 116, 101, 105, 103, 104, 116>>), I(<<51, 51>>), S(<<115>>), S(<<119, 111, 114, 100>>)>>)))

\* Fields declared out of order, Z < a < ab < b
C16_UnsortedReached ==
    /\ EncodingRecord
    /\ job.T = Unsorted
    /\ job.value = StructV(<<IntV(U64(33)), BoolV(TRUE), StrV(<<>>), IntV(Negate(U64(1)))>>)
    /\ encoded[1] = OkResult(Enc(D(<<S(<<90>>), I(<<45, 49>>), S(<<97>>), S(<<>>), S(<<97, 98>>), I(<<49>>), S(<<98>>), I(<<51, 51>>)>>)))

\* The orders fields can be written in
Orders(n) == {p \in [1..n -> 1..n] : \A i, j \in 1..n : p[i] = p[j] => i = j}

AllNone(v) == \A j \in 1..Len(v.kids) : v.kids[j].k = "none"

\* C17: encoding a record omits exactly the fields whose value is None: such
\* a field gives neither key nor value bytes, every other field is written,
\* and a record whose optional fields are all absent encodes as "de".
C17_OmitsNone ==
    EncodingRecord =>
        /\ encoded[1].k = "Ok"
        /\ \E order \in Orders(Len(job.T.names)) :
                encoded[1].v = <<D_CHAR>> \o JoinPairs(job.T, job.value, order) \o <<E_CHAR>>
        /\ AllNone(job.value) => encoded[1].v = <<D_CHAR, E_CHAR>>

\* C17 holds for the records no optional field of which holds a value (and
\* whose field names are ASCII)
C17_PlainRecords ==
    (EncodingRecord /\ Plain(job.T, job.value)) =>
        /\ encoded[1].k = "Ok"
        /\ \E order \in Orders(Len(job.T.names)) :
                encoded[1].v = <<D_CHAR>> \o JoinPairs(job.T, job.value, order) \o <<E_CHAR>>
        /\ AllNone(job.value) => encoded[1].v = <<D_CHAR, E_CHAR>>

C17_AllAbsentReached ==
    /\ EncodingRecord
    /\ job.T = TestWithOption /\ job.value = StructV(<<NoneV, NoneV>>)
    /\ encoded[1] = OkResult(<<D_CHAR, E_CHAR>>)

C17_OneAbsentReached ==
    /\ EncodingRecord
    /\ job.T = Inner /\ job.value = StructV(<<IntV(U64(33)), NoneV>>)
    /\ encoded[1] = OkResult(Enc(D(<<S(<<121>>), I(<<51, 51>>)>>)))

\* C18: decoding a dict into a record with optional fields sets each
\* optional field to Some(v) when its key is present with value v and to
\* None when its key never appears: "de", "d1:ii8ee", "d1:s6:floppye" and
\* "d1:ii34e1:s6:floppye" as the test's TestWithOption.
C18_OptionalFields ==
    /\ DecodeCase(TestWithOption, D(<<>>)) =>
            decoded[1] = OkResult(StructV(<<NoneV, NoneV>>))
    /\ DecodeCase(TestWithOption, D(<<S(<<105>>), I(<<56>>)>>)) =>
            decoded[1] = OkResult(StructV(<<SomeV(IntV(U64(8))), NoneV>>))
    /\ DecodeCase(TestWithOption, D(<<S(<<115>>), S(<<102, 108, 111, 112, 112, 121>>)>>)) =>
            decoded[1] = OkResult(StructV(<<NoneV, SomeV(StrV(<<102, 108, 111, 112, 112, 121>>))>>))
    /\ DecodeCase(TestWithOption, D(<<S(<<105>>), I(<<51, 52>>), S(<<115>>), S(<<102, 108, 111, 112, 112, 121>>)>>)) =>
            decoded[1] = OkResult(StructV(<<SomeV(IntV(U64(34))), SomeV(StrV(<<102, 108, 111, 112, 112, 121>>))>>))

\* The part of C18 that holds: a key that never appears gives None
C18_AbsentIsNone ==
    /\ DecodeCase(TestWithOption, D(<<>>)) =>
            decoded[1] = OkResult(StructV(<<NoneV, NoneV>>))
    /\ DecodeCase(Inner, D(<<S(<<121>>), I(<<ZERO_CHAR>>)>>)) =>
            decoded[1] = OkResult(StructV(<<IntV(U64(0)), NoneV>>))

C18_AbsentIsNone_Reached ==
    /\ DecodeCase(TestWithOption, D(<<>>))
    /\ decoded[1] = OkResult(StructV(<<NoneV, NoneV>>))

\* The bytes given to from_bytes hold a T and at least one byte more
DecodesWithRest ==
    /\ deserialize(job.T, Input).k = "Ok"
    /\ Len(deserialize(job.T, Input).c) >= 1

\* C19: from_bytes::<T> returns a value only when decoding T consumed the
\* whole input: if T decodes and at least one byte remains, the result is
\* the TrailingInput error and the decoded value is discarded.
C19_TrailingInput ==
    decoded # <<>> =>
        /\ DecodesWithRest => decoded[1] = ErrResult(TrailingInput)
        /\ decoded[1].k = "Ok" => /\ deserialize(job.T, Input).c = <<>>
                                   /\ deserialize(job.T, Input).v = decoded[1].v

C19_Witness ==
    /\ job.mode = "decode" /\ decoded # <<>>
    /\ job.T = IntT(FALSE, 8)
    /\ job.input = Enc(I(<<53>>)) \o <<E_CHAR>>
    /\ DecodesWithRest
    /\ decoded[1] = ErrResult(TrailingInput)

C19_RecordReached ==
    /\ job.mode = "decode" /\ decoded # <<>>
    /\ job.T = TestStruct
    /\ job.input = Enc(D(<<S(<<105, 110, 116, 101, 105, 103, 104, 116>>), I(<<51, 51>>), S(<<115>>), S(<<119, 111, 114, 100>>)>>)) \o <<I_CHAR>>
    /\ decoded[1] = ErrResult(TrailingInput)

\* The bytes to decode are 'i', '-', one digit or more, 'e'
IsNegativeInteger(bytes) ==
    /\ Len(bytes) >= 4
    /\ bytes[1] = I_CHAR /\ bytes[2] = MINUS_SIGN /\ bytes[Len(bytes)] = E_CHAR
    /\ \A j \in 3..(Len(bytes) - 1) : is_ascii_digit(bytes[j])

UnsignedTarget(T) == T.k = "bool" \/ (T.k = "int" /\ ~T.signed)

\* C20: decoding an unsigned target (u8, u16, u32, u64, bool) from an
\* encoded negative integer 'i-<digits>e' fails with the UnexpectedSigned
\* error, not with any other error kind and not with a value.
C20_UnexpectedSigned ==
    (/\ job.mode = "decode" /\ decoded # <<>>
     /\ UnsignedTarget(job.T) /\ IsNegativeInteger(job.input)) =>
        decoded[1] = ErrResult(UnexpectedSigned)

\* What the code does there: every such decode fails but that of "-0",
\* none with UnexpectedSigned
C20_Observed ==
    (/\ job.mode = "decode" /\ decoded # <<>>
     /\ UnsignedTarget(job.T) /\ IsNegativeInteger(job.input)) =>
        /\ decoded[1] # ErrResult(UnexpectedSigned)
        /\ job.T.k = "bool" => decoded[1] = ErrResult(ExpectedNumEnd)

C20_Observed_Reached ==
    /\ DecodeCase(IntT(FALSE, 16), I(<<45, 55>>))
    /\ decoded[1] = ErrResult(Message("invalid value"))

-----------------------------------------------------------------------------
\* The bytes to decode are 'i', a text, 'e'
IsIntegerInput(bytes) ==
    Len(bytes) >= 2 /\ bytes[1] = I_CHAR /\ bytes[Len(bytes)] = E_CHAR
InputText == SubSeq(job.input, 2, Len(job.input) - 1)

\* A bool is decoded from the encoding of an integer from -2^63 to 2^63-1
DecodingBool ==
    /\ job.mode = "decode" /\ decoded # <<>>
    /\ job.T = BoolT
    /\ IsIntegerInput(job.input) /\ ValidIntText(InputText)

\* C21: a bool decodes from any encoded integer value, positive, zero or
\* negative: from_bytes::<bool> returns false for "i0e" and true for every
\* encoded integer whose value is not zero, "i-1e" included.
C21_AnyInteger ==
    DecodingBool => decoded[1] = OkResult(BoolV(InputText # <<ZERO_CHAR>>))

\* C21 as the code has it: false for "i0e", true for every encoded integer
\* whose value is positive; a negative encoded integer is an error, never a
\* value.
C21_NonNegative ==
    DecodingBool =>
        IF IntNeg(InputText) THEN decoded[1].k = "Err"
        ELSE decoded[1] = OkResult(BoolV(InputText # <<ZERO_CHAR>>))

\* "i32e" is true
C21_Witness ==
    /\ DecodeCase(BoolT, I(<<51, 50>>))
    /\ decoded[1] = OkResult(BoolV(TRUE))

C21_ZeroReached ==
    /\ DecodeCase(BoolT, I(<<ZERO_CHAR>>))
    /\ decoded[1] = OkResult(BoolV(FALSE))

C21_NegativeReached ==
    /\ DecodeCase(BoolT, I(<<MINUS_SIGN, 49>>))
    /\ decoded[1] = ErrResult(ExpectedNumEnd)

-----------------------------------------------------------------------------
(* Both decoders on the same bytes: from_bytes on the bytes of a decode    *)
(* job, and next_value on a reader over those bytes.                       *)

BothInit ==
    /\ job \in {DecodeJob(T, input, ch) : T \in Types, input \in DecodeInputs, ch \in BOOLEAN}
    /\ encoded = <<>>
    /\ decoded = <<>>
    /\ origin = Origin(<<>>, 0, job.input)
    /\ src = SourceOf(origin)
    /\ chars = NewChars
    /\ results = <<>>
    /\ aborted = FALSE

BothNext == FromBytes \/ NextValue

BothSpec == BothInit /\ [][BothNext]_vars

\* The decimal magnitude of a u64
DecOf(x) == IF IsZero(x) THEN <<0>> ELSE DigitValues(Reverse(RawDigits(x)))

\* The target type is of the kind the first byte announces
MatchingKind(T, bytes) ==
    IF bytes[1] = I_CHAR THEN T.k = "int"
    ELSE IF is_ascii_digit(bytes[1]) THEN T.k \in {"str", "bytes"}
    ELSE IF bytes[1] = L_CHAR THEN T.k = "seq"
    ELSE bytes[1] = D_CHAR /\ T.k = "struct"

\* The typed value v of type T holds what the BEValue bev holds; of a dict,
\* the pairs the record has fields for
RECURSIVE SameContent(_, _, _)
SameContent(T, v, bev) ==
    IF T.k = "int"
    THEN /\ bev.t = "BEInteger"
         /\ bev.i = IF T.signed /\ IsNegative(v.n) THEN I64(TRUE, DecOf(Negate(v.n)))
                    ELSE I64(FALSE, DecOf(v.n))
    ELSE IF T.k \in {"str", "bytes"} THEN bev.t = "BEString" /\ bev.s = v.s
    ELSE IF T.k = "seq"
         THEN /\ bev.t = "BEList"
              /\ Len(bev.l) = Len(v.kids)
              /\ \A j \in 1..Len(v.kids) : SameContent(T.sub[1], v.kids[j], bev.l[j])
    ELSE IF T.k = "struct"
         THEN /\ bev.t = "BEDict"
              /\ \A j \in 1..Len(T.names) :
                    IF v.kids[j].k = "none" THEN T.names[j] \notin DOMAIN bev.d
                    ELSE /\ T.names[j] \in DOMAIN bev.d
                         /\ SameContent(T.sub[j], v.kids[j], bev.d[T.names[j]])
    ELSE FALSE

\* next_value found the input off the canonical form
RejectedAsNonCanonical(r) ==
    /\ r.k = "Err"
    /\ \/ r.v.e \in {"LeadZeroError", "NegativeZeroError", "KeysOutOfOrder"}
       \/ r.v = ParseIntError("Empty")

\* Both decoders have run on the bytes, the target of the matching kind
BothDecoded ==
    /\ job.mode = "decode" /\ decoded # <<>> /\ Len(results) >= 1
    /\ Len(job.input) >= 1
    /\ MatchingKind(job.T, job.input)

\* C22: the typed adapter and the streaming parser agree on canonical-form
\* edge cases: every input next_value rejects as non-canonical (a leading
\* zero, negative zero, no digits, dict keys not strictly increasing) is
\* rejected by from_bytes for a target of the matching kind, and every input
\* both accept decodes to the same content.
C22_Agree ==
    BothDecoded =>
        /\ RejectedAsNonCanonical(results[1]) => decoded[1].k = "Err"
        /\ (results[1].k = "Ok" /\ decoded[1].k = "Ok") =>
                SameContent(job.T, decoded[1].v, results[1].v)

\* The half of C22 that holds: what both accept, both decode to the same
\* content
C22_SameContent ==
    (BothDecoded /\ results[1].k = "Ok" /\ decoded[1].k = "Ok") =>
        SameContent(job.T, decoded[1].v, results[1].v)

C22_SameContent_Reached ==
    /\ BothDecoded
    /\ job.T = TestStruct
    /\ results[1].k = "Ok" /\ decoded[1].k = "Ok"
    /\ decoded[1].v = StructV(<<IntV(U64(33)), StrV(<<119, 111, 114, 100>>)>>)

\* "i032e" is LeadZeroError to next_value and 32 to from_bytes::<u8>
C22_LeadZeroReached ==
    /\ BothDecoded
    /\ job.T = IntT(FALSE, 8) /\ job.input = Enc(I(<<ZERO_CHAR, 51, 50>>))
    /\ results[1] = ErrResult(LeadZeroError)
    /\ decoded[1] = OkResult(IntV(U64(32)))

\* Keys out of order are KeysOutOfOrder to next_value and a record to from_bytes
C22_KeysReached ==
    /\ BothDecoded
    /\ job.T = TestStruct
    /\ results[1].k = "Err" /\ results[1].v.e = "KeysOutOfOrder"
    /\ decoded[1] = OkResult(StructV(<<IntV(U64(33)), StrV(<<119, 111, 114, 100>>)>>))

-----------------------------------------------------------------------------
\* The bytes to decode are a proper prefix of an encoding that decodes as
\* the job's type
IsPrefixOf(bytes, whole) ==
    Len(bytes) < Len(whole) /\ bytes = SubSeq(whole, 1, Len(bytes))
IsTruncatedInput ==
    \E tree \in TruncTrees :
        /\ IsPrefixOf(job.input, Enc(tree))
        /\ from_bytes(job.T, Enc(tree)).k = "Ok"

Decoding == job.mode = "decode" /\ decoded # <<>>

\* C23: every failure of the typed decoder is an error value: for every
\* byte input and every supported target type from_bytes returns Ok or Err
\* and never aborts; a string whose declared length exceeds the remaining
\* input, the one-byte input "i" and an input that ends inside a list or
\* dict all return Eof.
C23_NeverAborts ==
    Decoding =>
        /\ decoded[1].k \in {"Ok", "Err"}
        /\ (Len(job.input) >= 1 /\ IsTruncatedInput) => decoded[1] = ErrResult(Eof)

\* What the code does with an encoding cut short: Eof, or an abort
C23_EofOrAbort ==
    (Decoding /\ Len(job.input) >= 1 /\ IsTruncatedInput) =>
        \/ decoded[1] = ErrResult(Eof)
        \/ decoded[1].k = "Panic"

\* "li1ei0e" as Vec<u32> is Eof
C23_EofReached ==
    /\ Decoding /\ IsTruncatedInput
    /\ job.T = VecT(IntT(FALSE, 32))
    /\ job.input = <<L_CHAR, I_CHAR, 49, E_CHAR, I_CHAR, ZERO_CHAR, E_CHAR>>
    /\ decoded[1] = ErrResult(Eof)

\* "4:ya" as String aborts
C23_StringAbortReached ==
    /\ Decoding /\ IsTruncatedInput
    /\ job.T = StrT
    /\ job.input = <<52, COLON_CHAR, 121, 97>>
    /\ decoded[1].k = "Panic"

\* "i" as u8 aborts
C23_PrefixAbortReached ==
    /\ Decoding /\ IsTruncatedInput
    /\ job.T = IntT(FALSE, 8)
    /\ job.input = <<I_CHAR>>
    /\ decoded[1].k = "Panic"

-----------------------------------------------------------------------------
(* Sources whose read fails.  The underlying Read returns an error once,   *)
(* after the first cut bytes of an encoding; the source then ends, or      *)
(* yields the rest of the encoding.                                        *)

IoTrees == TreesUpTo(MaxNodes) \cup TestTrees

\* (no prefix longer than 8 * (MaxNodes + 1) bytes is cut)
IoOrigins ==
    {Origin(<<x[1]>>, x[2],
            <<IO_ERR>> \o (IF x[3] THEN SubSeq(Enc(x[1]), x[2] + 1, Len(Enc(x[1]))) ELSE <<>>)) :
        x \in {y \in IoTrees \X (0..(8 * (MaxNodes + 1))) \X BOOLEAN :
                    y[2] <= Len(Enc(y[1]))}}

\* The failure at the last byte the string buffer holds, right after it and
\* one byte later; after as many digits as the digit buffer holds
IoEdgeOrigins ==
    {Origin(<<X(STR_BUF_LEN)>>, Len(Enc(X(STR_BUF_LEN))) - 1, <<IO_ERR>>),
     Origin(<<X(STR_BUF_LEN + 1)>>, Len(Enc(X(STR_BUF_LEN + 1))) - 1, <<IO_ERR>>),
     Origin(<<X(STR_BUF_LEN + 2)>>, Len(Enc(X(STR_BUF_LEN + 2))) - 1, <<IO_ERR>>),
     Origin(<<I(Digits(INT_BUF_LEN, 49))>>, INT_BUF_LEN + 1, <<IO_ERR, E_CHAR>>),
     Origin(<<I(Digits(INT_BUF_LEN + 1, 49))>>, INT_BUF_LEN + 2, <<IO_ERR, E_CHAR>>)}

IoInit ==
    /\ origin \in IoOrigins \cup IoEdgeOrigins
    /\ src = SourceOf(origin)
    /\ chars = NewChars
    /\ results = <<>>
    /\ aborted = FALSE
    /\ job = [mode |-> "none"]
    /\ encoded = <<>>
    /\ decoded = <<>>

IoNext == NextValue

IoSpec == IoInit /\ [][IoNext]_vars

\* The place of the failed read among the items the source yields
IoFailureAt == origin.cut + 1

\* This call pulls the failed read from the source
PullsFailure == chars.pos < IoFailureAt /\ chars'.pos >= IoFailureAt

\* C24: a read failure of the byte source, at whatever position in a value
\* it occurs and whether a peek or a consume observes it first, makes the
\* enclosing next_value call return IOError: never EOFError, None, a value or
\* another error; the read is not retried within that call (nothing is
\* pulled from the source after the failure).
C24_ReadFailureIsIOError ==
    [][(NextValue /\ PullsFailure) =>
            /\ results'[Len(results')] = ErrResult(IOError)
            /\ chars' = [pos |-> IoFailureAt, peeked |-> <<>>]]_vars

\* The failure met by a consume, inside a string's content ("4:q", then the
\* failed read, then "uux")
C24_Witness ==
    /\ origin = Origin(<<S(<<113, 117, 117, 120>>)>>, 3, <<IO_ERR, 117, 117, 120>>)
    /\ Len(results) = 1
    /\ results[1] = ErrResult(IOError)
    /\ chars = [pos |-> 4, peeked |-> <<>>]

\* The failure met by a peek, where a list's element or its 'e' is due
C24_PeekReached ==
    /\ origin = Origin(<<L(<<S(<<102, 111, 111>>)>>)>>, 6, <<IO_ERR, E_CHAR>>)
    /\ Len(results) = 1
    /\ results[1] = ErrResult(IOError)
    /\ chars = [pos |-> 7, peeked |-> <<>>]

\* The failure met by the second call, the first value returned
C24_SecondCallReached ==
    /\ origin = Origin(<<I(<<ZERO_CHAR>>)>>, 3, <<IO_ERR>>)
    /\ Len(results) = 2
    /\ results[1] = OkResult(BEInteger(I64(FALSE, <<0>>)))
    /\ results[2] = ErrResult(IOError)

\* The failure where the byte one past the string buffer is due
C24_BufferEndReached ==
    /\ origin.trees = <<X(STR_BUF_LEN + 1)>>
    /\ Len(results) = 1
    /\ results[1] = ErrResult(IOError)
    /\ chars.pos = IoFailureAt

-----------------------------------------------------------------------------
\* The test's record with one more pair, of a key that names no field, put
\* first
WithFake(value) ==
    D(<<S(<<102, 97, 107, 101>>), value,
        S(<<105, 110, 116, 101, 105, 103, 104, 116>>), I(<<51, 51>>), S(<<115>>), S(<<119, 111, 114, 100>>)>>)
TestStructValue == StructV(<<IntV(U64(33)), StrV(<<119, 111, 114, 100>>)>>)

\* C25: decoding a dict into a record succeeds when the dict holds an extra
\* key that names no field: the key and its whole value are skipped, whatever
\* kind the value is (integer, string, list or dict), and the other fields
\* decode as if the pair were absent.
C25_SkipsUnknown ==
    \A value \in {I(<<ZERO_CHAR>>), S(<<120>>), L(<<>>), D(<<>>)} :
        DecodeCase(TestStruct, WithFake(value)) => decoded[1] = OkResult(TestStructValue)

\* What the code does: the pair is skipped when its value is an integer;
\* a string, list or dict there is refused for its first byte
C25_OnlyIntegers ==
    /\ DecodeCase(TestStruct, WithFake(I(<<ZERO_CHAR>>))) => decoded[1] = OkResult(TestStructValue)
    /\ DecodeCase(TestStruct, WithFake(S(<<120>>))) => decoded[1] = ErrResult(UnrecognizedPrefix(49))
    /\ DecodeCase(TestStruct, WithFake(L(<<>>))) => decoded[1] = ErrResult(UnrecognizedPrefix(L_CHAR))
    /\ DecodeCase(TestStruct, WithFake(D(<<>>))) => decoded[1] = ErrResult(UnrecognizedPrefix(D_CHAR))

C25_IntegerReached ==
    /\ DecodeCase(TestStruct, WithFake(I(<<ZERO_CHAR>>)))
    /\ decoded[1] = OkResult(TestStructValue)

C25_StringReached ==
    /\ DecodeCase(TestStruct, WithFake(S(<<120>>)))
    /\ decoded[1] = ErrResult(UnrecognizedPrefix(49))

-----------------------------------------------------------------------------
\* The integer a canonical text denotes is one the type T holds
Fits(T, text) ==
    IF IntNeg(text)
    THEN T.signed /\ ~DecLess(DecOf(Negate(MinOf(T))), DigitValues(IntDigits(text)))
    ELSE ~DecLess(DecOf(MaxOf(T)), DigitValues(IntDigits(text)))

\* An integer type is decoded from a canonical encoded integer (a negative
\* one only as a signed type) whose value the type does not hold
DecodingTooWide ==
    /\ job.mode = "decode" /\ decoded # <<>>
    /\ job.T.k = "int"
    /\ IsIntegerInput(job.input)
    /\ CanonicalDigits(IntDigits(InputText))
    /\ InputText # <<MINUS_SIGN, ZERO_CHAR>>
    /\ IntNeg(InputText) => job.T.signed
    /\ ~Fits(job.T, InputText)

\* C26: decoding an encoded integer whose value does not fit the target
\* integer type returns a Message (custom) error for every target width,
\* digit strings beyond the 64-bit range included; never a wrapped or
\* truncated number, never an abort.
C26_OverflowIsMessage ==
    DecodingTooWide =>
        /\ decoded[1].k = "Err"
        /\ decoded[1].v.e = "Message"

\* C26 holds for the integers the adapter's u64 and its cast to i64 hold:
\* from -(2^63-1) to 2^64-1
C26_Within64Bits ==
    (/\ DecodingTooWide
     /\ IF IntNeg(InputText)
        THEN DecLess(DigitValues(IntDigits(InputText)), I64_MIN_MAGNITUDE)
        ELSE ~DecLess(DecOf(OnesLimbs(64)), DigitValues(IntDigits(InputText)))) =>
        /\ decoded[1].k = "Err"
        /\ decoded[1].v.e = "Message"

\* "i256e" as u8
C26_Within64Bits_Reached ==
    /\ DecodeCase(IntT(FALSE, 8), I(<<50, 53, 54>>))
    /\ DecodingTooWide
    /\ decoded[1] = ErrResult(Message("invalid value"))

\* "i-129e" as i8 and 2^63 as i64
C26_SignedReached ==
    \/ /\ DecodeCase(IntT(TRUE, 8), I(<<45, 49, 50, 57>>))
       /\ DecodingTooWide
       /\ decoded[1] = ErrResult(Message("invalid value"))
    \/ /\ DecodeCase(IntT(TRUE, 64), I(<<57, 50, 50, 51, 51, 55, 50, 48, 51, 54, 56, 53, 52, 55, 55, 53, 56, 48, 56>>))
       /\ DecodingTooWide
       /\ decoded[1] = ErrResult(Message("invalid value"))

\* 2^64 as u64 wraps to 0 where overflow is not checked, and -(2^63+1) as
\* i64 is 2^63-1
C26_WrappedReached ==
    \/ /\ DecodeCase(IntT(FALSE, 64), I(<<49, 56, 52, 52, 54, 55, 52, 52, 48, 55, 51, 55, 48, 57, 53, 53, 49, 54, 49, 54>>))
       /\ ~job.overflow_checks
       /\ decoded[1] = OkResult(IntV(U64(0)))
    \/ /\ DecodeCase(IntT(TRUE, 64), I(<<45, 57, 50, 50, 51, 51, 55, 50, 48, 51, 54, 56, 53, 52, 55, 55, 53, 56, 48, 57>>))
       /\ decoded[1] = OkResult(IntV(MaxOf(IntT(TRUE, 64))))

-----------------------------------------------------------------------------
(* The crate's own callers: next_value, and read_string called directly,   *)
(* as the test test_negative_string_length calls it.                       *)

\* Sources that start with a '-': the test's "-10:impossible_", and a '-'
\* before each of a few strings
MinusOrigins ==
    {Origin(<<>>, 0, <<MINUS_SIGN, 49, ZERO_CHAR, COLON_CHAR,
                       105, 109, 112, 111, 115, 115, 105, 98, 108, 101, 95>>)}
    \cup {Origin(<<>>, 0, <<MINUS_SIGN>> \o Enc(S(b)) \o tail) :
            b \in SeqsUpTo({E_CHAR, COLON_CHAR}, 2), tail \in SeqsUpTo(RawBytes, 1)}

DirectInit ==
    /\ origin \in RawOrigins \cup TreeOrigins \cup MinusOrigins
    /\ src = SourceOf(origin)
    /\ chars = NewChars
    /\ results = <<>>
    /\ aborted = FALSE
    /\ job = [mode |-> "none"]
    /\ encoded = <<>>
    /\ decoded = <<>>

\* One direct call of read_string on the reader
ReadString ==
    /\ ~aborted
    /\ Len(results) < MaxCalls
    /\ Returned(read_string(chars))
    /\ UNCHANGED <<origin, src, job, encoded, decoded>>

DirectNext == NextValue \/ ReadString

DirectSpec == DirectInit /\ [][DirectNext]_vars

\* The result of the call this step makes, and its being one of the errors
LastResult == results'[Len(results')]
LastIs(kinds) == LastResult.k = "Err" /\ LastResult.v.e \in kinds

\* The number "-" <digits> the reader is at
NegativeLength ==
    I64(TRUE, [j \in 1..DigitRun(Advance(chars, 1)) |->
                    Upcoming(Advance(chars, 1), j - 1) - ZERO_CHAR])

\* C27: no input makes the public next_value return NegativeStringLength or
\* MissingPrefixError; NegativeStringLength(len) arises only when
\* read_string is called directly on input that starts with '-', and carries
\* the length read ("-10:..." gives NegativeStringLength(-10)).
C27_NoNegativeLength ==
    [][/\ NextValue => ~LastIs({"NegativeStringLength", "MissingPrefixError"})
       /\ (results' # results /\ LastIs({"NegativeStringLength"})) =>
                /\ ReadString
                /\ Upcoming(chars, 0) = MINUS_SIGN
                /\ LastResult.v.len = NegativeLength]_vars

\* The test: read_string on "-10:impossible_"
C27_Witness ==
    /\ origin.tail = <<MINUS_SIGN, 49, ZERO_CHAR, COLON_CHAR,
                       105, 109, 112, 111, 115, 115, 105, 98, 108, 101, 95>>
    /\ results = <<ErrResult(NegativeStringLength(I64(TRUE, <<1, 0>>)))>>

\* next_value on the same source refuses the '-'
C27_PublicReached ==
    /\ origin.tail = <<MINUS_SIGN, 49, ZERO_CHAR, COLON_CHAR,
                       105, 109, 112, 111, 115, 115, 105, 98, 108, 101, 95>>
    /\ results = <<ErrResult(UnexpectedCharError(MINUS_SIGN))>>

-----------------------------------------------------------------------------
(* BEValue::len and BEValue::is_empty                                      *)

\* A len that counts an integer as nothing
len_IntegerIsNothing(v) ==
    IF v.t = "BEInteger" THEN 0
    ELSE IF v.t = "BEString" THEN Len(v.s)
    ELSE IF v.t = "BEList" THEN Len(v.l)
    ELSE Cardinality(DOMAIN v.d)

len(v) ==
    IF v.t = "BEInteger" THEN 1
    ELSE IF v.t = "BEString" THEN Len(v.s)
    ELSE IF v.t = "BEList" THEN Len(v.l)
    ELSE Cardinality(DOMAIN v.d)

is_empty(v) == len(v) = 0

\* What the encoding of a tree holds: one integer, the bytes of a string,
\* the elements of a list, the pairs of a dict
Holds(tree) ==
    IF tree.t = "I" THEN 1
    ELSE IF IsStringTree(tree) THEN ContentLen(tree)
    ELSE IF tree.t = "L" THEN Len(tree.kids)
    ELSE Len(tree.kids) \div 2

\* The calls that returned a value of the source's j-th encoding
ParsedValues ==
    {j \in 1..Len(results) :
        /\ j <= Len(origin.trees)
        /\ results[j].k = "Ok"
        /\ results[j].v # NoValue}

\* C28: len() returns 1 for every Integer, the byte count for a ByteString,
\* the element count for a List and the pair count for a Dict, and
\* is_empty() is true exactly when len() is 0; so an Integer is never empty,
\* while "0:", "le" and "de" parse to empty values.
C28_Len ==
    (IsWhole(origin) /\ AllValid(origin.trees)) =>
        \A j \in ParsedValues :
            /\ len(results[j].v) = Holds(origin.trees[j])
            /\ is_empty(results[j].v) <=> (Holds(origin.trees[j]) = 0)
            /\ origin.trees[j].t = "I" => ~is_empty(results[j].v)
            /\ origin.trees[j] \in {S(<<>>), L(<<>>), D(<<>>)} => is_empty(results[j].v)

\* "0:" was parsed, to an empty value
C28_Witness ==
    /\ origin = Whole(<<S(<<>>)>>)
    /\ 1 \in ParsedValues
    /\ is_empty(results[1].v)

\* "le" and "de" were parsed, to empty values
C28_EmptyListReached ==
    /\ origin = Whole(<<L(<<>>)>>)
    /\ 1 \in ParsedValues
    /\ is_empty(results[1].v)

C28_EmptyDictReached ==
    /\ origin = Whole(<<D(<<>>)>>)
    /\ 1 \in ParsedValues
    /\ is_empty(results[1].v)

\* An integer was parsed, zero among them: its len is 1
C28_IntegerReached ==
    /\ origin = Whole(<<I(<<ZERO_CHAR>>)>>)
    /\ 1 \in ParsedValues
    /\ len(results[1].v) = 1

\* A dict of more than one pair and a list of more than one element were
\* parsed
C28_PairsReached ==
    /\ IsWhole(origin)
    /\ 1 \in ParsedValues
    /\ origin.trees[1].t = "D"
    /\ len(results[1].v) >= 2

C28_ElementsReached ==
    /\ IsWhole(origin)
    /\ 1 \in ParsedValues
    /\ origin.trees[1].t = "L"
    /\ len(results[1].v) >= 2

-----------------------------------------------------------------------------
(* The order of read_dict's checks on a pair                               *)

\* The dict's items before the k-th are pairs of a string key and a value
\* the parser reads, the keys increasing; the k-th item is a key the parser
\* reads, and it is not greater than the key before it.
IsFirstDisorder(kids, k) ==
    /\ k % 2 = 1 /\ k >= 3 /\ k <= Len(kids)
    /\ \A m \in 1..(k - 1) : Valid(kids[m]) /\ WithinLimits(kids[m])
    /\ \A m \in 1..k : m % 2 = 1 => IsStringTree(kids[m])
    /\ \A m \in 3..(k - 1) :
            m % 2 = 1 => ~BytesLeq(Content(kids[m]), Content(kids[m - 2]))
    /\ WithinLimits(kids[k])
    /\ BytesLeq(Content(kids[k]), Content(kids[k - 2]))

\* The first call was made on a source that starts with a dict, and the
\* source holds the dict up to the end of a key out of order
DisorderRead(k) ==
    /\ results # <<>>
    /\ origin.trees # <<>>
    /\ origin.trees[1].t = "D"
    /\ IsFirstDisorder(origin.trees[1].kids, k)
    /\ origin.cut >= 1 + Len(EncAll(SubSeq(origin.trees[1].kids, 1, k)))

\* The reader as it stands after that key, and the key as the errors show it
AfterKey(k) ==
    [pos |-> 1 + Len(EncAll(SubSeq(origin.trees[1].kids, 1, k))), peeked |-> <<>>]
ShownKey(k) == from_utf8_lossy(Content(origin.trees[1].kids[k]))

\* C29: in read_dict the key-order check of a pair runs only after that
\* pair's value has been read: for a key that is not strictly greater than
\* the previous key, next_value returns MissingValueError if the key is
\* directly followed by 'e', returns the value's own error if the value is
\* truncated or malformed, and returns KeysOutOfOrder only when the value
\* parses successfully.
C29_OrderAfterValue ==
    \A k \in 1..(2 * MaxNodes + 5) :
        DisorderRead(k) =>
            IF Upcoming(AfterKey(k), 0) = E_CHAR
            THEN results[1] = ErrResult(MissingValueError(ShownKey(k)))
            ELSE LET value == next_value_no_eof(AfterKey(k))
                 IN  IF value.k = "Ok"
                     THEN results[1] = ErrResult(KeysOutOfOrder(ShownKey(k)))
                     ELSE /\ results[1] = [k |-> value.k, v |-> value.v]
                          /\ results[1] # ErrResult(KeysOutOfOrder(ShownKey(k)))

\* A key out of order whose value parses: KeysOutOfOrder
C29_Witness ==
    /\ \E k \in 1..(2 * MaxNodes + 5) : DisorderRead(k)
    /\ results[1].k = "Err"
    /\ results[1].v.e = "KeysOutOfOrder"

\* A key out of order directly followed by 'e': MissingValueError
C29_MissingValueReached ==
    /\ \E k \in 1..(2 * MaxNodes + 5) : DisorderRead(k)
    /\ results[1].k = "Err"
    /\ results[1].v.e = "MissingValueError"

\* A key out of order whose value is cut short, starts with a byte that
\* starts no value, or is an integer with a leading zero
C29_TruncatedReached ==
    /\ \E k \in 1..(2 * MaxNodes + 5) : DisorderRead(k)
    /\ results[1] = ErrResult(EOFError)

C29_UnexpectedReached ==
    /\ \E k \in 1..(2 * MaxNodes + 5) : DisorderRead(k)
    /\ results[1].k = "Err"
    /\ results[1].v.e = "UnexpectedCharError"

C29_LeadZeroReached ==
    /\ \E k \in 1..(2 * MaxNodes + 5) : DisorderRead(k)
    /\ results[1] = ErrResult(LeadZeroError)

====
